---- MODULE Spec2Model ----
(***************************************************************************)
(* A model of the Lispy interpreter (lispy.js, lines 1-750): the value     *)
(* universe, the Environment class and the NormalEval trampoline.          *)
(*                                                                         *)
(* Two specifications share the environment heap `envs`:                   *)
(*   EnvSpec  drives the methods of class Environment directly (the host   *)
(*            API: new Environment, present, get, define, set, update);    *)
(*   Spec     runs NormalEval on a program, one Eval activation per stack  *)
(*            frame, so the host stack of the interpreter is `stack`.      *)
(***************************************************************************)
EXTENDS Integers, Sequences, FiniteSets, TLC

\* ------------------------------------------------------------------ bounds
\* Recursive calls the tail-recursive sample program makes.
MaxN == 3
\* Environments the host API may construct in EnvSpec.
MaxEnvs == 3
\* Mutating Environment calls (constructor, define, set, update) in EnvSpec.
MaxOps == 3
\* Characters of a source text handed to Parse: texts of string tokens and of
\* blanks and comments, and texts of bracketed forms and atoms.
MaxText == 5
MaxForm == 4
\* Arrays on the heap of ListSpec, and the cells of one Array.
MaxArrays == 3
MaxCells == 2
\* Calls made on the lists of ListSpec.
MaxCalls == 3
\* ModSpec: import / Require calls of the program, nested module evaluations
\* the host stack holds
MaxImports == 2
MaxDepth == 3
\* Characters of the text the REPL hands to parse.
MaxLine == 5

VARIABLES
    envs,   \* heap of Environment objects: envs[i] = [members, parent]; parent 0 is undefined
    stack,  \* host stack of Eval activations, innermost last
    ret,    \* what the last call handed to its caller: a value, or a thrown error
    ev,     \* the call or evaluator step that produced the current state
    prog,   \* the program under evaluation: [name, n]
    nops,   \* mutating host calls made so far (EnvSpec)
    dbg,    \* the debug switch: [Eval, debugMode, leaked]
    parser, \* a call of Parse: [pc, code, lexemes, out] (ParseSpec)
    lists,  \* the Arrays of the host heap: [arrays, exps, kept, op, res] (ListSpec)
    mods,   \* the module loader: [cache, exps, frames, evals, ...] (ModSpec)
    repl    \* the REPL: [ContinuationFlag, ContinuedLine, prompt, ...] (ReplSpec)

vars == <<envs, stack, ret, ev, prog, nops, dbg, parser, lists, mods, repl>>

\* ------------------------------------------------------------------ values
Undefined == [t |-> "undefined"]
Nil == [t |-> "nil"]
Bool(b) == [t |-> "bool", v |-> b]
Num(n) == [t |-> "num", v |-> n]
Str(s) == [t |-> "str", v |-> s]
Sym(s) == [t |-> "sym", v |-> s]
List(xs) == [t |-> "list", v |-> xs]
LambdaV(args, body, env) ==
    [t |-> "lambda", args |-> args, body |-> body, env |-> env, evaluator |-> "NormalEval"]
MacroV(args, body, env) == [t |-> "macro", args |-> args, body |-> body, env |-> env]
Proc(name) == [t |-> "proc", v |-> name]
SpecialFunction(name) == [t |-> "sproc", v |-> name]
EnvRef(e) == [t |-> "env", v |-> e]
\* new Object(): a dict, held by its contents (no program here keeps two
\* references to one dict)
Dict(members) == [t |-> "dict", members |-> members]
ErrorV(name, message) == [t |-> "error", name |-> name, message |-> message]

\* "Key " + to_s(key) + " not found": a string built by concatenation
Text(parts) == [t |-> "text", parts |-> parts]

\* A host TypeError (reading a property of undefined or null, calling a non-function).
TypeError == ErrorV(Str("TypeError"), Str("TypeError"))

\* What a call hands back: a returned value or a thrown error, with the heap it leaves.
Ok(val, es) == [kind |-> "value", val |-> val, envs |-> es]
Throw(err, es) == [kind |-> "throw", val |-> err, envs |-> es]

\* The same value: the same kind of value first, lists element by element.
RECURSIVE SameVal(_, _)
SameVal(a, b) ==
    /\ a.t = b.t
    /\ CASE a.t = "list" ->
                /\ Len(a.v) = Len(b.v)
                /\ \A i \in 1..Len(a.v) : SameVal(a.v[i], b.v[i])
         [] a.t \in {"lambda", "macro"} ->
                SameVal(a.args, b.args) /\ SameVal(a.body, b.body) /\ a.env = b.env
         [] a.t = "error" -> SameVal(a.name, b.name) /\ SameVal(a.message, b.message)
         [] a.t = "dict" ->
                /\ DOMAIN a.members = DOMAIN b.members
                /\ \A k \in DOMAIN a.members : SameVal(a.members[k], b.members[k])
         [] OTHER -> a = b

NoRet == [kind |-> "none", val |-> Undefined]
Returned(val) == [kind |-> "value", val |-> val]
Thrown(err) == [kind |-> "throw", val |-> err]

\* ------------------------------------------------------------ JS objects
\* Property names every plain object {} inherits from Object.prototype
\* (toString stands for constructor, valueOf, hasOwnProperty, ...).
ObjectProtoKeys == {"toString"}

EmptyMembers == [k \in {} |-> Undefined]

\* `key in obj`: own or inherited.
HasKey(members, k) == k \in DOMAIN members \/ k \in ObjectProtoKeys

\* `obj[key]`
Member(members, k) ==
    IF k \in DOMAIN members THEN members[k]
    ELSE IF k \in ObjectProtoKeys THEN Proc("Object.prototype.toString")
    ELSE Undefined

\* `obj[key] = value`
Put(members, k, value) ==
    [x \in (DOMAIN members) \cup {k} |-> IF x = k THEN value ELSE members[x]]

\* Decimal text of a small integer.
DigitStr(d) ==
    CASE d = 0 -> "0" [] d = 1 -> "1" [] d = 2 -> "2" [] d = 3 -> "3" [] d = 4 -> "4"
      [] d = 5 -> "5" [] d = 6 -> "6" [] d = 7 -> "7" [] d = 8 -> "8" [] OTHER -> "9"

\* to_s(val): nil, a symbol's name, else String(val)
to_s(val) ==
    CASE val.t = "nil" -> "nil"
      [] val.t = "sym" -> val.v
      [] val.t = "str" -> val.v
      [] val.t = "undefined" -> "undefined"
      [] val.t = "bool" -> (IF val.v THEN "true" ELSE "false")
      [] val.t = "num" /\ val.v \in 0..9 -> DigitStr(val.v)
      [] val.t = "env" -> "#Environment"
      [] OTHER -> "[object Object]"

\* to_string(val, withquotes) throws: it ends in val.toString(), which is no
\* function when a dict holds something else under the key toString; an Array is
\* converted element by element.
RECURSIVE ToStringThrows(_)
ToStringThrows(val) ==
    CASE val.t = "dict" ->
            "toString" \in DOMAIN val.members
                /\ val.members["toString"].t \notin {"proc", "lambda"}
      [] val.t = "list" -> \E i \in 1..Len(val.v) : ToStringThrows(val.v[i])
      [] OTHER -> FALSE

\* inspect(obj, maxlength) is to_string(obj, true)
InspectThrows(obj) == ToStringThrows(obj)

\* ------------------------------------------------------------ Environment
\* if(key.constructor === Symbol) key = key.symbol;  (a TypeError on undefined/null)
KeyThrows(key) == key.t \in {"undefined", "nil"}
KeyName(key) == IF key.t = "sym" THEN key.v ELSE to_s(key)

\* throw new KeyNotFoundError(key, env): the constructor calls env.dump(key).
KeyNotFoundError(k, env) ==
    IF env = 0 THEN TypeError
    ELSE ErrorV(Str("KeyNotFoundError"), Text(<<"Key ", k, " not found">>))

\* (mutant) an environment constructed as its own parent
NewEnvironmentSelf(es, parent) ==
    Append(es, [members |-> EmptyMembers, parent |-> Len(es) + 1])

\* new Environment(parent)
NewEnvironment(es, parent) == Append(es, [members |-> EmptyMembers, parent |-> parent])

RECURSIVE PresentWalk(_, _, _)
PresentWalk(es, e, k) ==
    IF HasKey(es[e].members, k) THEN TRUE
    ELSE IF es[e].parent # 0 THEN PresentWalk(es, es[e].parent, k)
    ELSE FALSE

EnvPresent(es, e, key) ==
    IF KeyThrows(key) THEN Throw(TypeError, es)
    ELSE Ok(Bool(PresentWalk(es, e, KeyName(key))), es)

RECURSIVE GetWalk(_, _, _, _)
GetWalk(es, e, k, from) ==
    IF HasKey(es[e].members, k) THEN Ok(Member(es[e].members, k), es)
    ELSE IF es[e].parent # 0
         THEN GetWalk(es, es[e].parent, k, IF from # 0 THEN from ELSE e)
    ELSE Throw(KeyNotFoundError(k, from), es)

EnvGet(es, e, key) ==
    IF KeyThrows(key) THEN Throw(TypeError, es)
    ELSE GetWalk(es, e, KeyName(key), 0)

\* (mutant) define that overwrites the nearest existing binding, as set does
RECURSIVE WriteNearest(_, _, _, _, _)
WriteNearest(es, e, k, value, start) ==
    IF k \in DOMAIN es[e].members THEN [es EXCEPT ![e].members = Put(@, k, value)]
    ELSE IF es[e].parent # 0 THEN WriteNearest(es, es[e].parent, k, value, start)
    ELSE [es EXCEPT ![start].members = Put(@, k, value)]

DefineKeyNearest(es, e, k, value) == WriteNearest(es, e, k, value, e)

DefineKey(es, e, k, value) == [es EXCEPT ![e].members = Put(@, k, value)]

EnvDefine(es, e, key, value) ==
    IF KeyThrows(key) THEN Throw(TypeError, es)
    ELSE Ok(value, DefineKey(es, e, KeyName(key), value))

RECURSIVE SetWalk(_, _, _, _)
SetWalk(es, e, k, value) ==
    IF HasKey(es[e].members, k) THEN Ok(value, DefineKey(es, e, k, value))
    ELSE IF es[e].parent # 0 THEN SetWalk(es, es[e].parent, k, value)
    ELSE Throw(KeyNotFoundError(k, e), es)

EnvSet(es, e, key, value) ==
    IF KeyThrows(key) THEN Throw(TypeError, es)
    ELSE SetWalk(es, e, KeyName(key), value)

\* values[i] of a JS array: undefined past its end
At(xs, i) == IF i \in 1..Len(xs) THEN xs[i] ELSE Undefined

\* (mutant) the loop bounded by the values supplied: missing parameters stay unbound
RECURSIVE UpdateSupplied(_, _, _, _, _)
UpdateSupplied(es, e, names, values, i) ==
    IF i > Len(names) \/ i > Len(values) THEN Ok(Undefined, es)
    ELSE LET d == EnvDefine(es, e, names[i], At(values, i))
         IN IF d.kind = "throw" THEN d
            ELSE UpdateSupplied(d.envs, e, names, values, i + 1)

RECURSIVE UpdateLoop(_, _, _, _, _)
UpdateLoop(es, e, names, values, i) ==
    IF i > Len(names) THEN Ok(Undefined, es)
    ELSE LET d == EnvDefine(es, e, names[i], At(values, i))
         IN IF d.kind = "throw" THEN d
            ELSE UpdateLoop(d.envs, e, names, values, i + 1)

\* update(names, values); `values` is the JS value passed (an array on every call
\* the evaluator makes).  A name list that is neither a Symbol nor an array has no
\* numeric length here, so the loop body never runs.
EnvUpdate(es, e, names, values) ==
    CASE names.t \in {"undefined", "nil"} -> Throw(TypeError, es)
      [] names.t = "sym" -> UpdateLoop(es, e, <<Str(names.v)>>, <<values>>, 1)
      [] names.t = "list" -> UpdateLoop(es, e, names.v, values.v, 1)
      [] OTHER -> Ok(Undefined, es)

\* ---------------------------------------------------------------- EnvSpec
\* The host drives class Environment directly, as an embedding program may
\* (Environment is exported, and env:* expose the same methods to Lispy code).
Keys == {Sym("a"), Sym("toString")}
UpdateNames == {Sym("a"), List(<<>>), List(<<Sym("a")>>), List(<<Sym("a"), Sym("b")>>)}
Fresh(n) == Num(n + 1)
UpdateValues(n) == {List(SubSeq(<<Fresh(n), Fresh(n + 1), Fresh(n + 2)>>, 1, m)) : m \in 0..3}

Call(op, e, key, val) == [op |-> op, env |-> e, key |-> key, val |-> val]
NoCall == [op |-> "none"]

InitEnv ==
    /\ envs = <<[members |-> EmptyMembers, parent |-> 0]>>
    /\ stack = <<>>
    /\ ret = NoRet
    /\ ev = NoCall
    /\ prog = [name |-> "host", n |-> 0]
    /\ nops = 0
    /\ dbg = [Eval |-> "NormalEval", debugMode |-> FALSE, leaked |-> 0]
    /\ parser = [pc |-> "off"]
    /\ lists = [op |-> "off"]
    /\ mods = [op |-> "off"]
    /\ repl = [op |-> "off"]

CtorCall ==
    \E parent \in 0..Len(envs) :
        /\ Len(envs) < MaxEnvs
        /\ nops < MaxOps
        /\ envs' = NewEnvironment(envs, parent)
        /\ ret' = Returned(EnvRef(Len(envs) + 1))
        /\ ev' = Call("new", Len(envs) + 1, Undefined, Undefined)
        /\ nops' = nops + 1
        /\ UNCHANGED <<stack, prog, dbg, parser, lists, mods, repl>>

PresentCall ==
    \E e \in 1..Len(envs), key \in Keys :
        LET out == EnvPresent(envs, e, key)
        IN /\ envs' = out.envs
           /\ ret' = [kind |-> out.kind, val |-> out.val]
           /\ ev' = Call("present", e, key, Undefined)
           /\ UNCHANGED <<stack, prog, nops, dbg, parser, lists, mods, repl>>

GetCall ==
    \E e \in 1..Len(envs), key \in Keys :
        LET out == EnvGet(envs, e, key)
        IN /\ envs' = out.envs
           /\ ret' = [kind |-> out.kind, val |-> out.val]
           /\ ev' = Call("get", e, key, Undefined)
           /\ UNCHANGED <<stack, prog, nops, dbg, parser, lists, mods, repl>>

DefineCall ==
    \E e \in 1..Len(envs), key \in Keys :
        LET out == EnvDefine(envs, e, key, Fresh(nops))
        IN /\ nops < MaxOps
           /\ envs' = out.envs
           /\ ret' = [kind |-> out.kind, val |-> out.val]
           /\ ev' = Call("define", e, key, Fresh(nops))
           /\ nops' = nops + 1
           /\ UNCHANGED <<stack, prog, dbg, parser, lists, mods, repl>>

SetCall ==
    \E e \in 1..Len(envs), key \in Keys :
        LET out == EnvSet(envs, e, key, Fresh(nops))
        IN /\ nops < MaxOps
           /\ envs' = out.envs
           /\ ret' = [kind |-> out.kind, val |-> out.val]
           /\ ev' = Call("set", e, key, Fresh(nops))
           /\ nops' = nops + 1
           /\ UNCHANGED <<stack, prog, dbg, parser, lists, mods, repl>>

UpdateCall ==
    \E e \in 1..Len(envs), names \in UpdateNames, values \in UpdateValues(nops) :
        LET out == EnvUpdate(envs, e, names, values)
        IN /\ nops < MaxOps
           /\ envs' = out.envs
           /\ ret' = [kind |-> out.kind, val |-> out.val]
           /\ ev' = Call("update", e, names, values)
           /\ nops' = nops + 1
           /\ UNCHANGED <<stack, prog, dbg, parser, lists, mods, repl>>

NextEnv ==
    \/ CtorCall
    \/ PresentCall
    \/ GetCall
    \/ DefineCall
    \/ SetCall
    \/ UpdateCall

EnvSpec == InitEnv /\ [][NextEnv]_vars

\* ------------------------------------------------------------ NormalEval
SpecialForms == {"if", "quote", "define", "defined?", "set!", "lambda", "macro", "begin", "try"}

\* One activation of NormalEval(X, Env).  pc "eval" is the top of its while loop;
\* every other pc names the Eval call the activation is waiting in.
\* debug: the activation was entered through DebugEval, with X0 its argument X.
Frame(X, Env) ==
    [X |-> X, Env |-> Env, pc |-> "eval", proc |-> Undefined,
     todo |-> <<>>, vals |-> <<>>, err |-> Undefined, newEnv |-> 0, out |-> <<>>,
     debug |-> (dbg.Eval = "DebugEval"), X0 |-> X]

Top == stack[Len(stack)]
Pop(stk) == SubSeq(stk, 1, Len(stk) - 1)

\* X[i] of a JS array (0-based): undefined past its end
Idx(X, i) == At(X.v, i + 1)
\* X.slice(1)
Rest(X) == IF Len(X.v) = 0 THEN <<>> ELSE Tail(X.v)

\* var first = X[0]; if(first.constructor === Symbol) first = first.symbol;
\* the name switch(first) dispatches on ("" when no case matches).
HeadThrows(X) == Idx(X, 0).t \in {"undefined", "nil"}
SpecialHead(X) ==
    LET first == Idx(X, 0)
    IN IF first.t \in {"sym", "str"} /\ first.v \in SpecialForms THEN first.v ELSE ""

\* (mutant) only false selects the alternative
TruthyUnlessFalse(v) == ~(v.t = "bool" /\ ~v.v)

\* The condition of `cond ? a : b`.
Truthy(v) ==
    CASE v.t \in {"undefined", "nil", "nan"} -> FALSE
      [] v.t = "bool" -> v.v
      [] v.t = "num" -> v.v # 0
      [] v.t = "str" -> v.v # ""
      [] OTHER -> TRUE

\* (mutant) an activation that calls Eval where the code loops
Recurse(stk, X, Env) ==
    Append([stk EXCEPT ![Len(stk)].pc = "host"], Frame(X, Env))

\* X = ...; Env = ...; continue;
Continue(stk, X, Env) ==
    [stk EXCEPT ![Len(stk)] = [@ EXCEPT !.X = X, !.Env = Env, !.pc = "eval"]]

\* Eval(X, Env) called from the top activation, which waits at `pc`.
CallEval(stk, pc, X, Env) ==
    Append([stk EXCEPT ![Len(stk)].pc = pc], Frame(X, Env))

\* var depth: DebugEval's depth++ of every activation entered through it and
\* not left, the depth-- it skipped included
Depth == Cardinality({i \in 1..Len(stack) : stack[i].debug}) + dbg.leaked

\* "=".repeat(depth - 1) of depthStr
DepthStrThrows == Depth = 0

\* if(debugMode) console.error(depthStr() + "Eval(", inspect(X, ...), ")") throws
TraceFails == dbg.debugMode /\ (DepthStrThrows \/ InspectThrows(Top.X))

AtLoopTop == Len(stack) > 0 /\ ret.kind = "none" /\ Top.pc = "eval"
Running == AtLoopTop /\ ~TraceFails
Resumed(pc) == Len(stack) > 0 /\ ret.kind = "value" /\ Top.pc = pc
IsForm(name) == Running /\ Top.X.t = "list" /\ ~HeadThrows(Top.X) /\ SpecialHead(Top.X) = name

Step(name) == [op |-> name]

\* DebugEval after NormalEval returned `result`:
\* console.error(depthStr() + "Eval(", inspect(X, ...), "):", inspect(result, ...))
TraceThrows(f, result) == f.debug /\ (InspectThrows(f.X0) \/ InspectThrows(result))

\* The top activation returns / throws what `out` holds, and the debug switch is
\* left as d.  Through DebugEval the returned value is traced, and when the trace
\* throws the depth-- after it is skipped.
FinishWith(out, d) ==
    LET fails == out.kind = "value" /\ TraceThrows(Top, out.val)
    IN /\ stack' = Pop(stack)
       /\ ret' = IF fails THEN Thrown(TypeError) ELSE [kind |-> out.kind, val |-> out.val]
       /\ envs' = out.envs
       /\ dbg' = IF fails THEN [d EXCEPT !.leaked = @ + 1] ELSE d

Finish(out) == FinishWith(out, dbg)

RangeError == ErrorV(Str("RangeError"), Str("Invalid count value"))

\* the trace at the top of NormalEval's loop throws
TraceThrow ==
    /\ AtLoopTop
    /\ TraceFails
    /\ Finish(Throw(IF DepthStrThrows THEN RangeError ELSE TypeError, envs))
    /\ ev' = Step("trace")
    /\ UNCHANGED <<prog, nops, parser, lists, mods, repl>>


\* if(X === undefined || X === null) return X; if(X.constructor !== Array) return X;
EvalSelf ==
    /\ Running
    /\ Top.X.t \notin {"sym", "list"}
    /\ Finish(Ok(Top.X, envs))
    /\ ev' = Step("self")
    /\ UNCHANGED <<prog, nops, parser, lists, mods, repl>>

\* if(X.constructor === Symbol) return Env.get(X.symbol);
EvalSymbol ==
    /\ Running
    /\ Top.X.t = "sym"
    /\ Finish(EnvGet(envs, Top.Env, Str(Top.X.v)))
    /\ ev' = [op |-> "symbol", env |-> Top.Env, key |-> Top.X]
    /\ UNCHANGED <<prog, nops, parser, lists, mods, repl>>

\* first.constructor on the undefined head of () (or a nil head)
EvalBadHead ==
    /\ Running
    /\ Top.X.t = "list"
    /\ HeadThrows(Top.X)
    /\ Finish(Throw(TypeError, envs))
    /\ ev' = Step("badhead")
    /\ UNCHANGED <<prog, nops, parser, lists, mods, repl>>

\* case 'if': X = Eval(X[1], Env) ? X[2] : Alt
EvalIf ==
    /\ IsForm("if")
    /\ stack' = CallEval(stack, "if", Idx(Top.X, 1), Top.Env)
    /\ ev' = Step("if")
    /\ UNCHANGED <<envs, ret, prog, nops, dbg, parser, lists, mods, repl>>

IfBranch ==
    /\ Resumed("if")
    /\ LET X == Top.X
           Alt == IF Len(X.v) > 2 THEN Idx(X, 3) ELSE Nil
       IN stack' = Continue(stack, IF Truthy(ret.val) THEN Idx(X, 2) ELSE Alt, Top.Env)
    /\ ret' = NoRet
    /\ ev' = [op |-> "branch", cond |-> ret.val, form |-> Top.X]
    /\ UNCHANGED <<envs, prog, nops, dbg, parser, lists, mods, repl>>

\* case 'quote': return X[1]
EvalQuote ==
    /\ IsForm("quote")
    /\ Finish(Ok(Idx(Top.X, 1), envs))
    /\ ev' = Step("quote")
    /\ UNCHANGED <<prog, nops, parser, lists, mods, repl>>

\* case 'define': return Env.define(X[1], Eval(X[2], Env))
EvalDefine ==
    /\ IsForm("define")
    /\ stack' = CallEval(stack, "define", Idx(Top.X, 2), Top.Env)
    /\ ev' = Step("define?")
    /\ UNCHANGED <<envs, ret, prog, nops, dbg, parser, lists, mods, repl>>

DefineDone ==
    /\ Resumed("define")
    /\ Finish(EnvDefine(envs, Top.Env, Idx(Top.X, 1), ret.val))
    /\ ev' = Call("define", Top.Env, Idx(Top.X, 1), ret.val)
    /\ UNCHANGED <<prog, nops, parser, lists, mods, repl>>

\* case 'defined?': return Env.present(X[1])
EvalDefinedP ==
    /\ IsForm("defined?")
    /\ Finish(EnvPresent(envs, Top.Env, Idx(Top.X, 1)))
    /\ ev' = Step("defined?")
    /\ UNCHANGED <<prog, nops, parser, lists, mods, repl>>

\* case 'set!': return Env.set(X[1], Eval(X[2], Env))
EvalSet ==
    /\ IsForm("set!")
    /\ stack' = CallEval(stack, "set", Idx(Top.X, 2), Top.Env)
    /\ ev' = Step("set?")
    /\ UNCHANGED <<envs, ret, prog, nops, dbg, parser, lists, mods, repl>>

SetDone ==
    /\ Resumed("set")
    /\ Finish(EnvSet(envs, Top.Env, Idx(Top.X, 1), ret.val))
    /\ ev' = Call("set", Top.Env, Idx(Top.X, 1), ret.val)
    /\ UNCHANGED <<prog, nops, parser, lists, mods, repl>>

\* MakeCallableLambda(new Lambda(X[1], X[2], Env, Eval)): the evaluator is the
\* value Eval has now
MakeCallableLambda(args, body, env) == [LambdaV(args, body, env) EXCEPT !.evaluator = dbg.Eval]

\* case 'lambda'
EvalLambda ==
    /\ IsForm("lambda")
    /\ Finish(Ok(MakeCallableLambda(Idx(Top.X, 1), Idx(Top.X, 2), Top.Env), envs))
    /\ ev' = [op |-> "lambda", env |-> Top.Env, form |-> Top.X]
    /\ UNCHANGED <<prog, nops, parser, lists, mods, repl>>

\* case 'macro': return new Macro(X[1], X[2], Env)
EvalMacro ==
    /\ IsForm("macro")
    /\ Finish(Ok(MacroV(Idx(Top.X, 1), Idx(Top.X, 2), Top.Env), envs))
    /\ ev' = Step("macro")
    /\ UNCHANGED <<prog, nops, parser, lists, mods, repl>>

\* case 'begin': Exps = X.slice(1); while(Exps.length > 1) Eval(Exps.shift(), Env);
\*               X = Exps.shift(); continue
BeginLoop(stk, Exps, Env) ==
    IF Len(Exps) > 1
    THEN CallEval([stk EXCEPT ![Len(stk)].todo = Tail(Exps)], "begin", Exps[1], Env)
    ELSE Continue([stk EXCEPT ![Len(stk)].todo = <<>>], At(Exps, 1), Env)

EvalBegin ==
    /\ IsForm("begin")
    /\ stack' = BeginLoop(stack, Rest(Top.X), Top.Env)
    /\ ev' = Step("begin")
    /\ UNCHANGED <<envs, ret, prog, nops, dbg, parser, lists, mods, repl>>

BeginNext ==
    /\ Resumed("begin")
    /\ stack' = BeginLoop(stack, Top.todo, Top.Env)
    /\ ret' = NoRet
    /\ ev' = Step("next")
    /\ UNCHANGED <<envs, prog, nops, dbg, parser, lists, mods, repl>>

\* case 'try': try { return Eval(X[1], Env); } catch (e) { ... }
EvalTry ==
    /\ IsForm("try")
    /\ stack' = CallEval(stack, "try", Idx(Top.X, 1), Top.Env)
    /\ ev' = Step("try")
    /\ UNCHANGED <<envs, ret, prog, nops, dbg, parser, lists, mods, repl>>

TryReturn ==
    /\ Resumed("try")
    /\ Finish(Ok(ret.val, envs))
    /\ ev' = [op |-> "tried", form |-> Top.X]
    /\ UNCHANGED <<prog, nops, parser, lists, mods, repl>>

\* catch (e) { var handler = Eval(X[2], Env); ...
TryCatch ==
    /\ Len(stack) > 0 /\ ret.kind = "throw" /\ Top.pc = "try"
    /\ stack' = CallEval([stack EXCEPT ![Len(stack)].err = ret.val],
                         "handler", Idx(Top.X, 2), Top.Env)
    /\ ret' = NoRet
    /\ ev' = [op |-> "catch", env |-> Top.Env, err |-> ret.val]
    /\ UNCHANGED <<envs, prog, nops, dbg, parser, lists, mods, repl>>

InvalidArgumentError ==
    ErrorV(Str("InvalidArgumentError"),
           Str("try requires a function/lambda for exception handler"))

\* if (typeof handler !== 'function') throw new InvalidArgumentError(...)
TryHandlerInvalid ==
    /\ Resumed("handler")
    /\ ret.val.t \notin {"lambda", "proc"}
    /\ Finish(Throw(InvalidArgumentError, envs))
    /\ ev' = [op |-> "handler", handler |-> ret.val, err |-> Top.err]
    /\ UNCHANGED <<prog, nops, parser, lists, mods, repl>>

\* (mutant) the handler invoked without the error
HandlerNoArgs(e) == <<>>

\* the argument list [e] the handler is applied to
HandlerArgs(e) == <<e>>

\* (mutant) a child of the environment the call is made from
CallerParent(proc, callerEnv) == callerEnv

\* new Environment(proc.lambda.env): the parent of the environment a Lambda or
\* Macro body runs in
ClosureParent(proc, callerEnv) == proc.env

\* targetEnv = new Environment(parent); targetEnv.update(names, values)
Bind(es, proc, callerEnv, values) ==
    EnvUpdate(NewEnvironment(es, ClosureParent(proc, callerEnv)),
              Len(es) + 1, proc.args, values)

\* if (handler.__proto__ === Lambda) { Env = new Environment(handler.lambda.env);
\*   Env.update(handler.lambda.args, [e]); X = handler.lambda.body; continue; }
TryHandlerLambda ==
    /\ Resumed("handler")
    /\ ret.val.t = "lambda"
    /\ LET out == Bind(envs, ret.val, Top.Env, List(HandlerArgs(Top.err)))
       IN IF out.kind = "throw" THEN Finish(out)
          ELSE /\ envs' = out.envs
               /\ stack' = Continue(stack, ret.val.body, Len(envs) + 1)
               /\ ret' = NoRet
               /\ UNCHANGED dbg
    /\ ev' = [op |-> "handler", handler |-> ret.val, err |-> Top.err]
    /\ UNCHANGED <<prog, nops, parser, lists, mods, repl>>

\* ------------------------------------------------------- host procedures
NaN == [t |-> "nan"]

\* a quotient that is no integer
Float == [t |-> "float"]

\* ops['+'], ops['-'], ops['*'], ops['/'] on numbers
BinOp(op, a, b) ==
    IF a.t = "num" /\ b.t = "num"
    THEN CASE op = "+" -> Num(a.v + b.v)
           [] op = "-" -> Num(a.v - b.v)
           [] op = "/" -> IF b.v > 0 /\ a.v % b.v = 0 THEN Num(a.v \div b.v) ELSE Float
           [] OTHER -> Num(a.v * b.v)
    ELSE NaN

RECURSIVE Fold(_, _, _, _)
Fold(op, acc, xs, i) ==
    IF i > Len(xs) THEN acc ELSE Fold(op, BinOp(op, acc, xs[i]), xs, i + 1)

\* ManyArgs(Args => reduce.call(Args, ops[op])): reduce with no initial value
Reduce(op, args, es) ==
    IF Len(args) = 0 THEN Throw(TypeError, es) ELSE Ok(Fold(op, args[1], args, 2), es)

\* LispyTypeOf(x): the symbol of Types for x, or UnexpectedInputError when no
\* test matches (typeof x is then 'boolean')
LispyTypeOf(x, es) ==
    CASE x.t = "undefined" -> Ok(Sym("undefined"), es)
      [] x.t = "nil" -> Ok(Sym("nil"), es)
      [] x.t = "list" -> Ok(Sym("list"), es)
      [] x.t \in {"num", "nan", "float"} -> Ok(Sym("number"), es)
      [] x.t \in {"str", "text"} -> Ok(Sym("string"), es)
      [] x.t = "sym" -> Ok(Sym("symbol"), es)
      [] x.t = "lambda" -> Ok(Sym("lambda"), es)
      [] x.t = "proc" -> Ok(Sym("proc"), es)
      [] x.t = "sproc" -> Ok(Sym("sproc"), es)
      [] x.t = "macro" -> Ok(Sym("macro"), es)
      [] x.t = "env" -> Ok(Sym("environment"), es)
      [] x.t \in {"dict", "error"} -> Ok(Sym("object"), es)
      [] OTHER ->
            Throw(ErrorV(Str("UnexpectedInputError"),
                         Text(<<"Unknown object type: ", "boolean">>)), es)

\* '=': (a, b) => (a is a Symbol ? a.symbol : a) == (b is a Symbol ? b.symbol : b),
\* for the operands programs here compare: symbols, strings, numbers, booleans,
\* nil and undefined (null == undefined; an object equals none of these)
LooseEquals(a, b) ==
    LET Plain(x) == IF x.t = "sym" THEN Str(x.v) ELSE x
    IN IF Plain(a).t \in {"nil", "undefined"} THEN Plain(b).t \in {"nil", "undefined"}
       ELSE /\ Plain(a).t = Plain(b).t
            /\ Plain(a).t \in {"str", "num", "bool"}
            /\ Plain(a).v = Plain(b).v

\* 'dict:get': (dict, key) => dict[to_s(key)]
DictGet(dict, key, es) ==
    CASE dict.t \in {"undefined", "nil"} -> Throw(TypeError, es)
      [] dict.t = "dict" ->
            IF HasKey(dict.members, to_s(key)) THEN Ok(Member(dict.members, to_s(key)), es)
            ELSE Ok(Undefined, es)
      [] dict.t = "error" /\ to_s(key) = "name" -> Ok(dict.name, es)
      [] dict.t = "error" /\ to_s(key) = "message" -> Ok(dict.message, es)
      [] OTHER -> Ok(Undefined, es)

\* 'dict:key?': (dict, key) => to_s(key) in dict
DictKeyP(dict, key, es) ==
    CASE dict.t = "dict" -> Ok(Bool(HasKey(dict.members, to_s(key))), es)
      [] dict.t \in {"list", "error", "env", "lambda", "macro", "proc", "sproc"} ->
            Ok(Bool(to_s(key) \in ObjectProtoKeys), es)
      [] OTHER -> Throw(TypeError, es)

\* proc(...exps) for the host procedures of StdLib that do not call Eval
HostCall(name, args, es) ==
    CASE name \in {"+", "-", "*", "/"} -> Reduce(name, args, es)
      [] name = "<=" ->
            Ok(Bool(At(args, 1).t = "num" /\ At(args, 2).t = "num"
                    /\ At(args, 1).v <= At(args, 2).v), es)
      [] name = "list" -> Ok(List(args), es)
      [] name = "error" -> Throw(At(args, 1), es)
      [] name = "error:custom" -> Ok(ErrorV(At(args, 1), At(args, 2)), es)
      [] name = "dict:new" -> Ok(Dict(EmptyMembers), es)
      [] name = "dict:update" ->
            \* dict[to_s(key)] = value; return dict  (strict mode: a TypeError on a
            \* primitive; a property set on another kind of object is not kept)
            CASE At(args, 1).t = "dict" ->
                    Ok(Dict(Put(At(args, 1).members, to_s(At(args, 2)), At(args, 3))), es)
              \* an Environment is an ordinary object: env["parent"] = value
              [] At(args, 1).t = "env" /\ to_s(At(args, 2)) = "parent"
                    /\ At(args, 3).t = "env" ->
                    Ok(At(args, 1), [es EXCEPT ![At(args, 1).v].parent = At(args, 3).v])
              [] At(args, 1).t \in {"undefined", "nil", "num", "str", "bool", "nan", "float"} ->
                    Throw(TypeError, es)
              [] OTHER -> Ok(At(args, 1), es)
      [] name = "kernel:debug?" -> Ok(Bool(dbg.Eval = "DebugEval"), es)
      [] name = "typeof" -> LispyTypeOf(At(args, 1), es)
      [] name = "=" -> Ok(Bool(LooseEquals(At(args, 1), At(args, 2))), es)
      [] name = "dict:get" -> DictGet(At(args, 1), At(args, 2), es)
      [] name = "to_s" -> Ok(Str(to_s(At(args, 1))), es)
      \* 'env:new': pEnv => new Environment(pEnv)  (pEnv an Environment, or left out)
      [] name = "env:new" /\ At(args, 1).t \in {"env", "undefined"} ->
            Ok(EnvRef(Len(es) + 1),
               NewEnvironment(es, IF At(args, 1).t = "env" THEN At(args, 1).v ELSE 0))
      [] name = "dict:key?" -> DictKeyP(At(args, 1), At(args, 2), es)
      [] name = "Object.prototype.toString" -> Ok(Str("[object Undefined]"), es)
      [] OTHER -> Throw(TypeError, es)

\* StdLib, as AddStdLib defines it in StandardEnvironment (the part programs use)
StdLib ==
    [x \in {"undefined", "nil", "false", "true", "+", "-", "*", "/", "<=", "list", "map",
            "error", "error:custom", "eval", "env:current", "dict:new", "dict:update",
            "kernel:debug?", "kernel:debug", "typeof", "=",
            "dict:get", "dict:key?", "to_s", "env:new"} |->
        CASE x = "undefined" -> Undefined
          [] x = "nil" -> Nil
          [] x = "false" -> Bool(FALSE)
          [] x = "true" -> Bool(TRUE)
          [] x = "env:current" -> SpecialFunction(x)
          [] OTHER -> Proc(x)]

\* else return handler(e);
TryHandlerProc ==
    /\ Resumed("handler")
    /\ ret.val.t = "proc"
    /\ Finish(HostCall(ret.val.v, HandlerArgs(Top.err), envs))
    /\ ev' = [op |-> "handler", handler |-> ret.val, err |-> Top.err]
    /\ UNCHANGED <<prog, nops, parser, lists, mods, repl>>

\* An error leaves an activation that is not inside the try block of case 'try'.
Unwind ==
    /\ Len(stack) > 0 /\ ret.kind = "throw" /\ Top.pc # "try"
    /\ stack' = Pop(stack)
    /\ ev' = Step("unwind")
    /\ UNCHANGED <<envs, ret, prog, nops, dbg, parser, lists, mods, repl>>

\* ------------------------------------------------------------ application
\* var proc = Eval(X[0], Env);
EvalApp ==
    /\ IsForm("")
    /\ stack' = CallEval(stack, "proc", Idx(Top.X, 0), Top.Env)
    /\ ev' = Step("app")
    /\ UNCHANGED <<envs, ret, prog, nops, dbg, parser, lists, mods, repl>>

\* proc.constructor on undefined or null
AppProcThrows ==
    /\ Resumed("proc")
    /\ ret.val.t \in {"undefined", "nil"}
    /\ Finish(Throw(TypeError, envs))
    /\ ev' = Step("noproc")
    /\ UNCHANGED <<prog, nops, parser, lists, mods, repl>>

\* if(proc.constructor === Macro) { newEnv = new Environment(proc.env);
\*   newEnv.update(proc.args, exps); X = Eval(proc.body, newEnv); continue; }
AppMacro ==
    /\ Resumed("proc")
    /\ ret.val.t = "macro"
    /\ LET out == Bind(envs, ret.val, Top.Env, List(Rest(Top.X)))
       IN IF out.kind = "throw" THEN Finish(out)
          ELSE /\ envs' = out.envs
               /\ stack' = CallEval([stack EXCEPT ![Len(stack)].proc = ret.val,
                                                   ![Len(stack)].newEnv = Len(envs) + 1],
                                    "macro", ret.val.body, Len(envs) + 1)
               /\ ret' = NoRet
               /\ UNCHANGED dbg
    /\ ev' = [op |-> "expand", proc |-> ret.val, args |-> Rest(Top.X), caller |-> Top.Env]
    /\ UNCHANGED <<prog, nops, parser, lists, mods, repl>>

\* (mutant) the expansion evaluated where the macro body ran
ExpansionInMacroEnv(callerEnv, macroEnv) == macroEnv

\* X = Eval(proc.body, newEnv); continue;  -- Env is still the caller's
ExpansionEnv(callerEnv, macroEnv) == callerEnv

MacroExpanded ==
    /\ Resumed("macro")
    /\ stack' = Continue(stack, ret.val, ExpansionEnv(Top.Env, Top.newEnv))
    /\ ret' = NoRet
    /\ ev' = [op |-> "expanded", form |-> ret.val, caller |-> Top.Env, proc |-> Top.proc]
    /\ UNCHANGED <<envs, prog, nops, dbg, parser, lists, mods, repl>>

\* (mutant) the operands evaluated last to first
ArgLoopLastFirst(stk, todo, Env) ==
    IF todo = <<>> THEN [stk EXCEPT ![Len(stk)].pc = "call"]
    ELSE CallEval([stk EXCEPT ![Len(stk)].todo = SubSeq(todo, 1, Len(todo) - 1)],
                  "args", todo[Len(todo)], Env)

\* exps = exps.map(Y => Eval(Y, Env));
ArgLoop(stk, todo, Env) ==
    IF todo = <<>> THEN [stk EXCEPT ![Len(stk)].pc = "call"]
    ELSE CallEval([stk EXCEPT ![Len(stk)].todo = Tail(todo)], "args", todo[1], Env)

AppArgs ==
    /\ Resumed("proc")
    /\ ret.val.t \notin {"undefined", "nil", "macro"}
    /\ stack' = ArgLoop([stack EXCEPT ![Len(stack)].proc = ret.val,
                                      ![Len(stack)].vals = <<>>],
                        Rest(Top.X), Top.Env)
    /\ ret' = NoRet
    /\ ev' = Step("args")
    /\ UNCHANGED <<envs, prog, nops, dbg, parser, lists, mods, repl>>

AppArg ==
    /\ Resumed("args")
    /\ stack' = ArgLoop([stack EXCEPT ![Len(stack)].vals = Append(@, ret.val)],
                        Top.todo, Top.Env)
    /\ ret' = NoRet
    /\ ev' = Step("arg")
    /\ UNCHANGED <<envs, prog, nops, dbg, parser, lists, mods, repl>>

Calling == Len(stack) > 0 /\ ret.kind = "none" /\ Top.pc = "call"

\* if(proc.constructor === SpecialFunction) return proc.handler(exps, Env);
\* env:current is (Args, Env) => Env
ApplySpecial ==
    /\ Calling
    /\ Top.proc.t = "sproc"
    /\ Finish(Ok(EnvRef(Top.Env), envs))
    /\ ev' = Step("special")
    /\ UNCHANGED <<prog, nops, parser, lists, mods, repl>>

\* if (proc.__proto__ === Lambda) { newEnv = new Environment(proc.lambda.env);
\*   newEnv.update(proc.lambda.args, exps); X = proc.lambda.body; Env = newEnv; continue; }
ApplyLambda ==
    /\ Calling
    /\ Top.proc.t = "lambda"
    /\ LET out == Bind(envs, Top.proc, Top.Env, List(Top.vals))
       IN IF out.kind = "throw" THEN Finish(out)
          ELSE /\ envs' = out.envs
               /\ stack' = Continue(stack, Top.proc.body, Len(envs) + 1)
               /\ ret' = NoRet
               /\ UNCHANGED dbg
    /\ ev' = [op |-> "apply", proc |-> Top.proc, args |-> Top.vals, caller |-> Top.Env]
    /\ UNCHANGED <<prog, nops, parser, lists, mods, repl>>

\* else return proc(...exps);   'eval': (x, env) => Eval(x, env) re-enters Eval
ApplyHost ==
    /\ Calling
    /\ Top.proc.t = "proc"
    /\ Top.proc.v \notin {"map", "kernel:debug"}
    /\ IF Top.proc.v = "eval" /\ At(Top.vals, 2).t = "env"
       THEN /\ stack' = CallEval(stack, "host", At(Top.vals, 1), At(Top.vals, 2).v)
            /\ UNCHANGED <<envs, ret, dbg>>
       ELSE Finish(HostCall(Top.proc.v, Top.vals, envs))
    /\ ev' = [op |-> "host", proc |-> Top.proc, args |-> Top.vals]
    /\ UNCHANGED <<prog, nops, parser, lists, mods, repl>>

\* 'kernel:debug': bool => SetDebug(bool), which is
\* Eval = debug ? DebugEval : NormalEval; return debug
ApplyKernelDebug ==
    /\ Calling
    /\ Top.proc.t = "proc"
    /\ Top.proc.v = "kernel:debug"
    /\ FinishWith(Ok(At(Top.vals, 1), envs),
                  [dbg EXCEPT !.Eval = IF Truthy(At(Top.vals, 1)) THEN "DebugEval"
                                       ELSE "NormalEval"])
    /\ ev' = [op |-> "setdebug", proc |-> Top.proc, args |-> Top.vals]
    /\ UNCHANGED <<prog, nops, parser, lists, mods, repl>>

\* the host procedure returns what the Eval it called returned
HostReturn ==
    /\ Resumed("host")
    /\ Finish(Ok(ret.val, envs))
    /\ ev' = Step("hostret")
    /\ UNCHANGED <<prog, nops, parser, lists, mods, repl>>

\* 'map': (list, callback) => list.map(callback)
\* list.map on a value that has no map, or with a callback that is no function
ApplyMap ==
    /\ Calling
    /\ Top.proc.t = "proc"
    /\ Top.proc.v = "map"
    /\ IF At(Top.vals, 1).t = "list" /\ At(Top.vals, 2).t \in {"lambda", "proc"}
       THEN /\ stack' = [stack EXCEPT ![Len(stack)] =
                            [@ EXCEPT !.pc = "map", !.todo = At(Top.vals, 1).v, !.out = <<>>]]
            /\ UNCHANGED <<envs, ret, dbg>>
       ELSE Finish(Throw(TypeError, envs))
    /\ ev' = [op |-> "host", proc |-> Top.proc, args |-> Top.vals]
    /\ UNCHANGED <<prog, nops, parser, lists, mods, repl>>

\* (mutant) X and Env kept in one place shared with the nested evaluation, which
\* overwrites those of the activation that called the primitive
CallBackShared(stk, fn, Env) ==
    Append([stk EXCEPT ![Len(stk)] = [@ EXCEPT !.pc = "map", !.X = fn.body, !.Env = Env]],
           [Frame(fn.body, Env) EXCEPT !.debug = (fn.evaluator = "DebugEval")])

\* lambda.evaluator(lambda.body, targetEnv): an Eval call of its own, made from
\* inside the primitive
CallBack(stk, fn, Env) ==
    Append([stk EXCEPT ![Len(stk)].pc = "map"],
           [Frame(fn.body, Env) EXCEPT !.debug = (fn.evaluator = "DebugEval")])

\* Array.prototype.map calls callback(element, index, array) for the next element;
\* a Lambda is the function MakeCallableLambda built: var targetEnv = new
\* Environment(lambda.env); targetEnv.update(lambda.args, slice.call(arguments));
\* return lambda.evaluator(lambda.body, targetEnv)
MapCall ==
    /\ Len(stack) > 0 /\ ret.kind = "none" /\ Top.pc = "map"
    /\ LET list == At(Top.vals, 1)
           callback == At(Top.vals, 2)
           args == <<Top.todo[1], Num(Len(list.v) - Len(Top.todo)), list>>
           next == [stack EXCEPT ![Len(stack)].todo = Tail(Top.todo)]
       IN IF Top.todo = <<>> THEN Finish(Ok(List(Top.out), envs)) /\ ev' = Step("mapped")
          ELSE /\ ev' = [op |-> "callback", proc |-> callback, args |-> args]
               /\ IF callback.t = "lambda"
                  THEN LET b == Bind(envs, callback, Top.Env, List(args))
                       IN IF b.kind = "throw" THEN Finish(b)
                          ELSE /\ envs' = b.envs
                               /\ stack' = CallBack(next, callback, Len(envs) + 1)
                               /\ ret' = NoRet
                               /\ UNCHANGED dbg
                  ELSE LET r == HostCall(callback.v, args, envs)
                       IN IF r.kind = "throw" THEN Finish(r)
                          ELSE /\ stack' = [next EXCEPT ![Len(stack)].out = Append(@, r.val)]
                               /\ envs' = r.envs
                               /\ ret' = NoRet
                               /\ UNCHANGED dbg
    /\ UNCHANGED <<prog, nops, parser, lists, mods, repl>>

\* the callback returned: its value is the next element of the result
MapReturn ==
    /\ Resumed("map")
    /\ stack' = [stack EXCEPT ![Len(stack)].out = Append(@, ret.val)]
    /\ ret' = NoRet
    /\ ev' = Step("called")
    /\ UNCHANGED <<envs, prog, nops, dbg, parser, lists, mods, repl>>

\* proc[method](...args) for the members the model knows; any other member is
\* undefined, and calling it is a TypeError
MemberCall(es, proc, method, args) ==
    CASE proc.t = "env" /\ method = "get" -> EnvGet(es, proc.v, At(args, 1))
      [] proc.t = "env" /\ method = "present" -> EnvPresent(es, proc.v, At(args, 1))
      [] proc.t = "env" /\ method = "define" ->
            EnvDefine(es, proc.v, At(args, 1), At(args, 2))
      [] proc.t = "env" /\ method = "set" -> EnvSet(es, proc.v, At(args, 1), At(args, 2))
      [] proc.t \in {"str", "num", "bool", "env"} /\ method = "toString" ->
            Ok(Str(to_s(proc)), es)
      [] proc.t = "dict" /\ HasKey(proc.members, method)
            /\ Member(proc.members, method).t = "proc" ->
            HostCall(Member(proc.members, method).v, args, es)
      [] OTHER -> Throw(TypeError, es)

\* else { var method = to_s(exps[0]); var args = exps.slice(1);
\*        return proc[method](...args); }
ApplyMember ==
    /\ Calling
    /\ Top.proc.t \notin {"sproc", "lambda", "proc"}
    /\ Finish(MemberCall(envs, Top.proc, to_s(At(Top.vals, 1)),
                         IF Top.vals = <<>> THEN <<>> ELSE Tail(Top.vals)))
    /\ ev' = [op |-> "member", proc |-> Top.proc, args |-> Top.vals]
    /\ UNCHANGED <<prog, nops, parser, lists, mods, repl>>

\* --------------------------------------------------------------- programs
S(x) == Sym(x)
L(xs) == List(xs)
Quote(x) == L(<<S("quote"), x>>)
Lam(params, body) == L(<<S("lambda"), params, body>>)
Def(name, x) == L(<<S("define"), S(name), x>>)
Begin(xs) == L(<<S("begin")>> \o xs)

\* The conditions tried in (if C 1 2).  '() is read as ("quote" ()) with a
\* String head (read_from, lines 143-148).
Conds ==
    << S("false"), Num(0), S("nil"), Str(""), L(<<Str("quote"), L(<<>>)>>),
       S("true"), Num(1), Str("a"), S("undefined"), Quote(S("x")) >>

\* fac2a of the sample program, called so that it recurses n times
TailProgram(n) ==
    Begin(<< Def("fac2a", Lam(L(<<S("N"), S("A")>>),
                L(<<S("if"), L(<<S("<="), S("N"), Num(1)>>),
                    S("A"),
                    L(<<S("fac2a"), L(<<S("-"), S("N"), Num(1)>>),
                                    L(<<S("*"), S("N"), S("A")>>)>>)>>))),
             L(<<S("fac2a"), Num(n + 1), Num(1)>>) >>)

\* Values applied as if they were procedures
NonCallables == << Num(1), Str("abc"), S("false"), S("nil"), S("undefined"), Quote(S("x")) >>

\* (set! t (+ (* t 10) d)): appends the digit d to the trace kept in t
Bump(d) == L(<<S("set!"), S("t"), L(<<S("+"), L(<<S("*"), S("t"), Num(10)>>), Num(d)>>)>>)

\* The operators and operand lists of the arithmetic programs (op ...)
ArithOps == <<"+", "-", "*", "/">>
ArithArgs == << <<>>, <<Num(6)>>, <<Num(6), Num(2)>>, <<Num(12), Num(3), Num(2)>> >>

\* (dict:update (dict:new) 'toString 1): a dict that holds 1 under toString
DictForm == L(<<S("dict:update"), L(<<S("dict:new")>>), Quote(S("toString")), Num(1)>>)
DictValue == Dict([k \in {"toString"} |-> Num(1)])
SetDebugForm(on) == L(<<S("kernel:debug"), S(IF on THEN "true" ELSE "false")>>)
\* a computation with a definition, a closure and a callback
PlainForm(body) ==
    L(<<S("list"), S("a"),
        L(<<S("map"), L(<<S("list"), Num(1), Num(2)>>), Lam(L(<<S("x")>>), body)>>)>>)
PlainBody == L(<<S("+"), S("x"), S("a")>>)

\* The operands tried in (typeof X): one expression for each kind of value
TypeOfArgs ==
    << S("undefined"), S("nil"), S("true"), S("false"), Num(1), Str("s"), Quote(S("a")),
       L(<<S("list"), Num(1)>>), L(<<S("dict:new")>>), L(<<S("env:current")>>),
       Lam(L(<<S("x")>>), S("x")), L(<<S("macro"), L(<<S("x")>>), S("x")>>),
       S("list"), S("env:current"),
       L(<<S("error:custom"), Quote(S("Oops")), Str("x")>>) >>

\* core.lisp, catching and errors: error:name and error-lookup as core defines them
CoreErrors ==
    << Def("error:name", Lam(L(<<S("E")>>), L(<<S("error-lookup"), S("E"), Quote(S("name"))>>))),
       Def("error-lookup", Lam(L(<<S("E"), S("Member")>>),
            L(<<S("if"), L(<<S("="), Quote(S("error")), L(<<S("typeof"), S("E")>>)>>),
                L(<<S("dict:get"), S("E"), S("Member")>>),
                L(<<S("if"), L(<<S("="), Quote(S("string")), L(<<S("typeof"), S("E")>>)>>),
                    S("E"),
                    Str("UndefinedError")>>)>>))) >>

\* The names and messages of (error:custom N M) in the recovery scenario
ErrorNames == << Sym("Oops"), Sym("Other"), Str("Oops") >>
ErrorMessages == << Str("x"), Str("") >>

\* Lists whose head is a String with the text of a special-form name and whose
\* operands name the unbound variable nosuch
StringHeads ==
    << L(<<Str("quote"), S("nosuch")>>),
       L(<<Str("if"), S("false"), S("nosuch"), Num(2)>>),
       L(<<Str("define"), S("nosuch"), Num(1)>>),
       L(<<Str("defined?"), S("nosuch")>>),
       L(<<Str("lambda"), L(<<S("nosuch")>>), Num(1)>>),
       L(<<Str("macro"), L(<<S("nosuch")>>), Num(1)>>),
       L(<<Str("try"), S("nosuch"), Lam(L(<<S("e")>>), Num(5))>>),
       L(<<Str("begin"), Num(1), L(<<Str("set!"), S("nosuch"), Num(1)>>)>>),
       L(<<Str("quota"), S("nosuch")>>) >>

\* module/jumptable.lisp: _, key and get as the module defines them, under the
\* names (import jumptable) binds them to
JumpTable ==
    << Def("_", Str("_")),
       Def("jumptable:key", Lam(L(<<S("Table"), S("Key")>>),
            L(<<S("if"), L(<<S("dict:key?"), S("Table"), L(<<S("to_s"), S("Key")>>)>>),
                S("Key"),
                S("_")>>))),
       Def("jumptable:get", Lam(L(<<S("Table"), S("Key")>>),
            L(<<S("dict:get"), S("Table"),
                L(<<S("jumptable:key"), S("Table"), L(<<S("to_s"), S("Key")>>)>>)>>))) >>

\* The update calls that build a table (update is dict:update applied to its
\* arguments), oldest first, and the keys looked up in it
JumpUpdates ==
    << << <<S("_"), Num(0)>>, <<S("a"), Num(1)>> >>,
       << <<S("_"), Num(0)>>, <<S("a"), Num(1)>>, <<Str("a"), Num(2)>> >>,
       << <<S("_"), Num(0)>>, <<S("toString"), Num(7)>> >>,
       << <<S("a"), Num(1)>> >> >>
JumpKeys == << S("a"), S("b"), Str("a"), S("toString"), S("_") >>

\* a key as the program writes it: 'a for a symbol
KeyForm(k) == IF k.t = "sym" THEN Quote(k) ELSE k

RECURSIVE JumpTableForm(_, _)
JumpTableForm(updates, i) ==
    IF i = 0 THEN L(<<S("dict:new")>>)
    ELSE L(<<S("dict:update"), JumpTableForm(updates, i - 1),
             KeyForm(updates[i][1]), updates[i][2]>>)

JumpUpdatesOf(n) == JumpUpdates[((n - 1) \div Len(JumpKeys)) + 1]
JumpKeyOf(n) == JumpKeys[((n - 1) % Len(JumpKeys)) + 1]

ErrorOops == L(<<S("error"), L(<<S("error:custom"), Quote(S("Oops")), Str("x")>>)>>)

Program(p) ==
    CASE p.name = "tail" -> TailProgram(p.n)
      [] p.name = "if" -> L(<<S("if"), Conds[p.n], Num(1), Num(2)>>)
      [] p.name = "apply" -> L(<<NonCallables[p.n], Num(2)>>)
      [] p.name = "arith" ->
            L(<<S(ArithOps[((p.n - 1) % Len(ArithOps)) + 1])>>
                \o ArithArgs[((p.n - 1) \div Len(ArithOps)) + 1])
      [] p.name = "strhead" -> StringHeads[p.n]
      [] p.name = "env_new" -> L(<<S("env:new"), L(<<S("env:new"), L(<<S("env:current")>>)>>)>>)
      [] p.name = "env_root" -> L(<<S("env:new")>>)
      [] p.name = "reparent" ->
            L(<<S("dict:update"), L(<<S("env:current")>>), Quote(S("parent")),
                L(<<S("env:current")>>)>>)
      [] p.name = "jump" ->
            Begin(JumpTable \o
                  << L(<<S("jumptable:get"),
                         JumpTableForm(JumpUpdatesOf(p.n), Len(JumpUpdatesOf(p.n))),
                         KeyForm(JumpKeyOf(p.n))>>) >>)
      [] p.name = "recover" ->
            \* (try (error (error:custom N M)) (lambda (e) (error:name e))) after
            \* the definitions of core.lisp, which export-core puts in scope of
            \* every program
            Begin(CoreErrors \o
                  << L(<<S("try"),
                         L(<<S("error"),
                             L(<<S("error:custom"),
                                 Quote(ErrorNames[((p.n - 1) % Len(ErrorNames)) + 1]),
                                 ErrorMessages[(((p.n - 1) \div Len(ErrorNames)) % Len(ErrorMessages)) + 1]>>)>>),
                         Lam(L(<<S("e")>>), L(<<S("error:name"), S("e")>>))>>) >>)
      [] p.name = "typeof" -> L(<<S("typeof"), TypeOfArgs[p.n]>>)
      [] p.name = "dbg_plain" ->
            \* the switch never called, called first, called between two
            \* expressions, called from inside a callback of map
            CASE p.n = 0 -> Begin(<<Def("a", Num(1)), PlainForm(PlainBody)>>)
              [] p.n = 1 ->
                    Begin(<<SetDebugForm(TRUE), Def("a", Num(1)), PlainForm(PlainBody)>>)
              [] p.n = 2 ->
                    Begin(<<Def("a", Num(1)), SetDebugForm(TRUE), PlainForm(PlainBody)>>)
              [] OTHER ->
                    Begin(<<Def("a", Num(1)),
                            PlainForm(Begin(<<L(<<S("kernel:debug"),
                                                  L(<<S("<="), S("x"), Num(1)>>)>>),
                                              PlainBody>>))>>)
      [] p.name = "dbg_dict" ->
            CASE p.n = 0 -> L(<<S("list"), DictForm>>)
              [] p.n = 1 -> Begin(<<SetDebugForm(TRUE), L(<<S("list"), DictForm>>)>>)
              [] OTHER -> Begin(<<SetDebugForm(FALSE), L(<<S("list"), DictForm>>)>>)
      [] p.name = "dbg_expr" ->
            Begin((IF p.n = 0 THEN <<>> ELSE <<SetDebugForm(FALSE)>>)
                  \o <<L(<<S("eval"), L(<<S("list"), Quote(S("quote")), DictForm>>),
                           L(<<S("env:current")>>)>>)>>)
      [] p.name = "dbg_query" -> L(<<S("kernel:debug?")>>)
      [] p.name = "if_noalt" -> L(<<S("if"), S("false"), Num(1)>>)
      [] p.name = "if_noalt_true" -> L(<<S("if"), S("true"), Num(1)>>)
      [] p.name = "lexical" ->
            Begin(<< Def("x", Num(1)),
                     Def("f", Lam(L(<<>>), S("x"))),
                     Def("g", Lam(L(<<S("x")>>), L(<<S("f")>>))),
                     L(<<S("g"), Num(2)>>) >>)
      [] p.name = "closure" ->
            Begin(<< Def("mk", Lam(L(<<S("x")>>),
                                   Lam(L(<<S("y")>>), L(<<S("+"), S("x"), S("y")>>)))),
                     L(<<L(<<S("mk"), Num(10)>>), Num(5)>>) >>)
      [] p.name = "late" ->
            Begin(<< Def("f", L(<<Lam(L(<<S("x")>>),
                                      Lam(L(<<>>), L(<<S("defined?"), S("y")>>))),
                                  Num(1)>>)),
                     L(<<Lam(L(<<S("y")>>), L(<<S("f")>>)), Num(2)>>) >>)
      [] p.name = "when" ->
            Begin(<< Def("when", L(<<S("macro"), L(<<S("c"), S("b")>>),
                                     L(<<S("list"), Quote(S("if")), S("c"), S("b"),
                                         Quote(S("nil"))>>)>>)),
                     L(<<S("when"), S("true"), Num(42)>>) >>)
      [] p.name = "macrodef" ->
            Begin(<< Def("x", Num(1)),
                     Def("m", L(<<S("macro"), L(<<S("n"), S("v")>>),
                                  L(<<S("list"), Quote(S("define")), S("n"), S("v")>>)>>)),
                     L(<<Lam(L(<<S("x")>>),
                             Begin(<< L(<<S("m"), S("y"), S("x")>>), S("y") >>)),
                         Num(5)>>) >>)
      [] p.name = "macroraw" ->
            Begin(<< Def("m", L(<<S("macro"), S("Args"),
                                  L(<<S("list"), Quote(S("quote")), S("Args")>>)>>)),
                     L(<<S("m"), L(<<S("nosuch"), Num(1)>>), S("nosuch")>>) >>)
      [] p.name = "varargs" -> L(<<Lam(S("Args"), S("Args")), Num(1), Num(2), Num(3)>>)
      [] p.name = "fewer" ->
            L(<<Lam(L(<<S("a"), S("b"), S("c")>>),
                    L(<<S("list"), S("a"), S("b"), S("c"), L(<<S("defined?"), S("c")>>)>>)),
                Num(1)>>)
      [] p.name = "extra" -> L(<<Lam(L(<<S("a")>>), S("a")), Num(1), Num(2)>>)
      [] p.name = "noparams" -> L(<<Lam(L(<<>>), Num(7)), Num(1)>>)
      [] p.name = "try_ok" ->
            Begin(<< Def("t", Num(0)),
                     L(<<S("list"), L(<<S("try"), Num(1), L(<<S("set!"), S("t"), Num(1)>>)>>),
                         S("t")>>) >>)
      [] p.name = "try_lambda" -> L(<<S("try"), ErrorOops, Lam(L(<<S("e")>>), S("e"))>>)
      [] p.name = "try_env" ->
            Begin(<< Def("h", L(<<Lam(L(<<S("z")>>),
                                      Lam(L(<<S("e"), S("f")>>),
                                          L(<<S("list"), S("z"), S("e"), S("f")>>))),
                                  Num(9)>>)),
                     L(<<Lam(L(<<S("z"), S("h2")>>),
                             L(<<S("try"), L(<<S("error"), Num(5)>>), S("h")>>)),
                         Num(7)>>) >>)
      [] p.name = "try_local" ->
            L(<<Lam(L(<<S("k")>>),
                    L(<<S("try"), S("nosuch"), Lam(L(<<S("e")>>), S("k"))>>)),
                Num(7)>>)
      [] p.name = "try_proc" -> L(<<S("try"), L(<<S("error"), Num(5)>>), S("list")>>)
      [] p.name = "try_bad" -> L(<<S("try"), L(<<S("error"), Num(5)>>), Num(3)>>)
      [] p.name = "try_macro" ->
            L(<<S("try"), L(<<S("error"), Num(5)>>),
                L(<<S("macro"), L(<<S("e")>>), S("e")>>)>>)
      [] p.name = "try_deep" ->
            L(<<S("try"), L(<<S("list"), Num(1), L(<<S("list"), ErrorOops>>)>>),
                Lam(L(<<S("e")>>), Num(8))>>)
      [] p.name = "set" ->
            Begin(<< Def("x", Num(1)),
                     L(<<Lam(L(<<>>), L(<<S("set!"), S("x"), Num(2)>>))>>),
                     S("x") >>)
      [] p.name = "set_unbound" -> L(<<S("set!"), S("nosuch"), Num(1)>>)
      [] p.name = "eval" ->
            L(<<S("eval"), Quote(L(<<S("+"), Num(1), Num(2)>>)), L(<<S("env:current")>>)>>)
      [] p.name = "member" -> L(<<Str("abc"), Quote(S("toString"))>>)
      [] p.name = "empty" -> L(<<>>)
      [] p.name = "map_lambda" ->
            L(<<S("map"), L(<<S("list"), Num(1), Num(2)>>),
                Lam(L(<<S("x")>>), L(<<S("+"), S("x"), S("x")>>))>>)
      [] p.name = "map_indexed" ->
            L(<<S("map"), L(<<S("list"), Num(5)>>), Lam(S("Args"), S("Args"))>>)
      [] p.name = "map_proc" -> L(<<S("map"), L(<<S("list"), Num(5)>>), S("+")>>)
      [] p.name = "map_outer" ->
            L(<<Lam(L(<<S("x")>>),
                    L(<<S("list"),
                        L(<<S("map"), L(<<S("list"), Num(1), Num(2)>>),
                            Lam(L(<<S("x")>>), L(<<S("*"), S("x"), Num(10)>>))>>),
                        S("x")>>)),
                Num(7)>>)
      [] p.name = "map_raise" ->
            L(<<Lam(L(<<S("k")>>),
                    L(<<S("try"),
                        L(<<S("map"), L(<<S("list"), Num(1), Num(2)>>),
                            Lam(L(<<S("k")>>), L(<<S("error"), S("k")>>))>>),
                        Lam(L(<<S("e")>>), L(<<S("list"), S("e"), S("k")>>))>>)),
                Num(7)>>)
      [] p.name = "map_bad" -> L(<<S("map"), L(<<S("list"), Num(1)>>), Num(3)>>)
      [] p.name = "order_args" ->
            Begin(<< Def("t", Num(0)),
                     L(<<Begin(<<Bump(1), S("list")>>), Bump(2), Bump(3)>>) >>)
      [] p.name = "order_begin" -> Begin(<< Def("t", Num(0)), Bump(1), Bump(2), Bump(3) >>)
      [] p.name = "order_macro" ->
            Begin(<< Def("t", Num(0)),
                     Def("m", L(<<S("macro"), L(<<S("a")>>), Begin(<<Bump(1), S("a")>>)>>)),
                     L(<<S("m"), Bump(2)>>) >>)
      [] OTHER -> Begin(<<>>)

FixedPrograms ==
    {"lexical", "closure", "late", "when", "macrodef", "macroraw", "varargs", "fewer",
     "extra", "noparams", "try_ok", "try_lambda", "try_env", "try_local", "try_proc",
     "try_bad", "try_macro", "try_deep", "set", "set_unbound", "eval", "member",
     "empty", "begin_empty", "order_args", "order_begin", "order_macro",
     "if_noalt", "if_noalt_true", "dbg_query",
     "map_lambda", "map_indexed", "map_proc", "map_outer", "map_raise", "map_bad",
     "env_new", "env_root", "reparent"}

Programs ==
    {[name |-> x, n |-> 0] : x \in FixedPrograms}
        \cup {[name |-> "tail", n |-> n] : n \in 1..MaxN}
        \cup {[name |-> "if", n |-> n] : n \in 1..Len(Conds)}
        \cup {[name |-> "apply", n |-> n] : n \in 1..Len(NonCallables)}
        \cup {[name |-> "arith", n |-> n] : n \in 1..(Len(ArithOps) * Len(ArithArgs))}
        \cup {[name |-> "dbg_plain", n |-> n] : n \in 0..3}
        \cup {[name |-> "dbg_dict", n |-> n] : n \in 0..2}
        \cup {[name |-> "dbg_expr", n |-> n] : n \in 0..1}
        \cup {[name |-> "typeof", n |-> n] : n \in 1..Len(TypeOfArgs)}
        \cup {[name |-> "recover", n |-> n] : n \in 1..(Len(ErrorNames) * Len(ErrorMessages))}
        \cup {[name |-> "strhead", n |-> n] : n \in 1..Len(StringHeads)}
        \cup {[name |-> "jump", n |-> n] : n \in 1..(Len(JumpUpdates) * Len(JumpKeys))}

\* Main: env = new Environment(StandardEnvironment); Eval(code, env).  The names
\* Main defines in env before it (argv, __main__, exports) are used by no program
\* here and are left out.
\* How an evaluation starts: Main without -d, or the exported Eval (which is
\* NormalEval whatever the switch says); Main with -d (debugMode = true;
\* SetDebug(true); Eval(code, env)); the exported Eval after the host called
\* SetDebug(true).
DebugModes ==
    {[Eval |-> "NormalEval", debugMode |-> FALSE, leaked |-> 0],
     [Eval |-> "DebugEval", debugMode |-> TRUE, leaked |-> 0],
     [Eval |-> "DebugEval", debugMode |-> FALSE, leaked |-> 0]}

Init ==
    /\ prog \in Programs
    /\ dbg \in DebugModes
    /\ envs = <<[members |-> StdLib, parent |-> 0], [members |-> EmptyMembers, parent |-> 1]>>
    /\ stack = <<[Frame(Program(prog), 2) EXCEPT !.debug = dbg.debugMode]>>
    /\ parser = [pc |-> "off"]
    /\ lists = [op |-> "off"]
    /\ mods = [op |-> "off"]
    /\ repl = [op |-> "off"]
    /\ ret = NoRet
    /\ ev = NoCall
    /\ nops = 0

Next ==
    \/ TraceThrow
    \/ ApplyKernelDebug
    \/ EvalSelf
    \/ EvalSymbol
    \/ EvalBadHead
    \/ EvalIf
    \/ IfBranch
    \/ EvalQuote
    \/ EvalDefine
    \/ DefineDone
    \/ EvalDefinedP
    \/ EvalSet
    \/ SetDone
    \/ EvalLambda
    \/ EvalMacro
    \/ EvalBegin
    \/ BeginNext
    \/ EvalTry
    \/ TryReturn
    \/ TryCatch
    \/ TryHandlerInvalid
    \/ TryHandlerLambda
    \/ TryHandlerProc
    \/ Unwind
    \/ EvalApp
    \/ AppProcThrows
    \/ AppMacro
    \/ MacroExpanded
    \/ AppArgs
    \/ AppArg
    \/ ApplySpecial
    \/ ApplyLambda
    \/ ApplyHost
    \/ HostReturn
    \/ ApplyMap
    \/ MapCall
    \/ MapReturn
    \/ ApplyMember

Spec == Init /\ [][Next]_vars

\* Eval is synchronous and single-threaded: an evaluation that can take a step
\* takes it.
FairSpec == Spec /\ WF_vars(Next)

\* ------------------------------------------------------------------ Parse
\* A source text is the sequence of its characters, a token a piece of it; the
\* first character of a text is at 1 where JavaScript counts from 0.

\* str[i]: undefined past the end
CharAt(str, i) == IF i \in 1..Len(str) THEN str[i] ELSE "undefined"
\* str.substr(s, n): at most n characters from s, none when n <= 0
Substr(str, s, n) == SubSeq(str, s, IF s + n - 1 < Len(str) THEN s + n - 1 ELSE Len(str))
startOf(str) == IF Len(str) > 0 THEN str[1] ELSE ""
endOf(str) == IF Len(str) > 0 THEN str[Len(str)] ELSE ""
isspace(c) == c \in {" ", "\t", "\r", "\n"}
isdigit(c) == c \in {"0", "1", "2", "3", "4", "5", "6", "7", "8", "9"}
\* "()[]{}": tSeparators.indexOf(c) != -1 is membership
tSeparators == {"(", ")", "[", "]", "{", "}"}

\* while (isspace(str[s])) ++s;
RECURSIVE SkipSpace(_, _)
SkipSpace(str, s) == IF isspace(CharAt(str, s)) THEN SkipSpace(str, s + 1) ELSE s

\* while(s < str.length && str[s] !== '\n' && str[s] !== '\r') ++s;
RECURSIVE SkipComment(_, _)
SkipComment(str, s) ==
    IF s <= Len(str) /\ str[s] # "\n" /\ str[s] # "\r" THEN SkipComment(str, s + 1) ELSE s

\* do { ++t; if (escape !== 0) escape--; if (str[t] === '\\') escape = 2; }
\* while (t < str.length && (escape !== 0 || str[t] !== '"'));
RECURSIVE StringEnd(_, _, _)
StringEnd(str, t, escape) ==
    LET t1 == t + 1
        e1 == IF escape # 0 THEN escape - 1 ELSE escape
        e2 == IF CharAt(str, t1) = "\\" THEN 2 ELSE e1
    IN IF t1 <= Len(str) /\ (e2 # 0 \/ str[t1] # "\"") THEN StringEnd(str, t1, e2) ELSE t1

\* while (t < str.length && !isspace(str[t]) && tSeparators.indexOf(str[t]) == -1) ++t;
RECURSIVE WordEnd(_, _)
WordEnd(str, t) ==
    IF t <= Len(str) /\ ~isspace(str[t]) /\ str[t] \notin tSeparators
    THEN WordEnd(str, t + 1) ELSE t

\* The loop of tokenise from s on.  A token is kept with the place it starts at:
\* tokens.push(str.substr(s, t - s)) pushes [at |-> s, tok |-> the piece].
RECURSIVE TokLoop(_, _, _)
TokLoop(str, s0, tokens) ==
    IF s0 > Len(str) THEN tokens
    ELSE LET s == SkipSpace(str, s0)
             push(t) == Append(tokens, [at |-> s, tok |-> Substr(str, s, t - s)])
         IN IF Substr(str, s, 2) = <<";", ";">>
                THEN TokLoop(str, SkipComment(str, s), tokens)
            ELSE IF CharAt(str, s) \in tSeparators
                THEN TokLoop(str, s + 1, push(s + 1))
            ELSE IF CharAt(str, s) = "\""
                THEN TokLoop(str, StringEnd(str, s, 0) + 1, push(StringEnd(str, s, 0) + 1))
            ELSE TokLoop(str, WordEnd(str, s), push(WordEnd(str, s)))

tokenise(str) == TokLoop(str, 1, <<>>)

\* token.substr(1, token.length - 2).replace(/(\\.)/g, ...) from i on: a backslash
\* and the character after it (no line end) become the character the escape
\* names, or the character itself when the escape is not a recognised one
RECURSIVE Unescape(_, _)
Unescape(str, i) ==
    LET Escape(c) ==
            CASE c = "t" -> "\t" [] c = "n" -> "\n" [] c = "r" -> "\r" [] c = "f" -> "\f"
              [] c = "v" -> "VT" [] c = "0" -> "NUL" [] c = "b" -> "BS"
              [] OTHER -> c
    IN IF i > Len(str) THEN <<>>
       ELSE IF str[i] = "\\" /\ i < Len(str) /\ str[i + 1] \notin {"\n", "\r"}
            THEN <<Escape(str[i + 1])>> \o Unescape(str, i + 2)
       ELSE <<str[i]>> \o Unescape(str, i + 1)

\* Number(token) for a token of digits, "-" and other characters: the decimal
\* value of a run of digits, negated after one leading "-", NaN for the rest
Number(token) ==
    LET Digit(c) == CHOOSE d \in 0..9 : <<"0", "1", "2", "3", "4", "5", "6", "7", "8", "9">>[d + 1] = c
        RECURSIVE Dec(_, _)
        Dec(i, acc) == IF i > Len(token) THEN acc ELSE Dec(i + 1, 10 * acc + Digit(token[i]))
        Digits(from) == from <= Len(token) /\ \A i \in from..Len(token) : isdigit(token[i])
    IN IF Digits(1) THEN Num(Dec(1, 0))
       ELSE IF token[1] = "-" /\ Digits(2) THEN Num(0 - Dec(2, 0))
       ELSE NaN

atom(token) ==
    IF startOf(token) = "\"" /\ endOf(token) = "\""
        THEN Str(Unescape(Substr(token, 2, Len(token) - 2), 1))
    ELSE IF isdigit(CharAt(token, 1))
            \/ (Len(token) > 1 /\ token[1] = "-" /\ isdigit(token[2]))
        THEN Number(token)
    ELSE Sym(token)

\* (mutant) the reader throws a host Error that is no ParserError
PlainError(reason) == ErrorV(Str("Error"), Str(reason))

\* new ParserError(reason)
ParserError(reason) == ErrorV(Str("ParserError"), Str(reason))

\* read_from(tokens) hands back a value or throws, and leaves `tokens` shorter.
\* ReadCells is the loop of a bracket that `opener` opened:
\* while (tokens[0] !== closer) { cells.push(read_from(tokens));
\*     if (tokens.length === 0) throw new ParserError("Missing closing ..."); }
\* tokens.shift(); return cells;
RECURSIVE read_from(_), ReadCells(_, _, _)
ReadCells(tokens, cells, opener) ==
    LET closer == CASE opener = "(" -> ")" [] opener = "[" -> "]" [] OTHER -> "}"
        reason == CASE opener = "(" -> "Missing closing )"
                    [] opener = "[" -> "Missing closing ]"
                    [] OTHER -> "Missing closing }"
        r == read_from(tokens)
    IN IF tokens # <<>> /\ tokens[1] = <<closer>>
           THEN [kind |-> "value", val |-> List(cells), tokens |-> Tail(tokens)]
       ELSE IF r.kind = "throw" THEN r
       ELSE IF r.tokens = <<>>
           THEN [kind |-> "throw", val |-> ParserError(reason), tokens |-> <<>>]
       ELSE ReadCells(r.tokens, Append(cells, r.val), opener)

read_from(tokens) ==
    LET token == Head(tokens)
        \* var cell = []; cell.push("quote"); cell.push(read_from(tokens))
        quoted(r) ==
            IF r.kind = "throw" THEN r
            ELSE [r EXCEPT !.val = List(<<Str(<<"q", "u", "o", "t", "e">>), r.val>>)]
    IN IF tokens = <<>>
           THEN [kind |-> "throw", val |-> ParserError("Missing opening token"),
                 tokens |-> tokens]
       ELSE IF token = <<"(">> THEN ReadCells(Tail(tokens), <<>>, "(")
       ELSE IF token = <<"[">>
           THEN ReadCells(Tail(tokens), <<Sym(<<"l", "i", "s", "t">>)>>, "[")
       ELSE IF token = <<"{">>
           THEN ReadCells(Tail(tokens), <<Sym(<<"t", "u", "p", "l", "e">>)>>, "{")
       ELSE IF token = <<"'">> THEN quoted(read_from(Tail(tokens)))
       ELSE IF startOf(token) = "'"
           THEN quoted(read_from(<<Tail(token)>> \o Tail(tokens)))
       ELSE [kind |-> "value", val |-> atom(token), tokens |-> Tail(tokens)]

\* The source texts handed to Parse: string tokens, blanks and comments,
\* bracketed forms, atoms.
Sources ==
    LET Texts(chars, n) == UNION {[1..k -> chars] : k \in 0..n}
    IN Texts({"\"", "\\", "a", " "}, MaxText)
        \cup Texts({" ", "\n", ";", "a"}, MaxText)
        \cup Texts({"(", ")", "[", "]", "{", "}", "'", "a"}, MaxForm)
        \cup Texts({"1", "-", "a", "'"}, MaxForm)

ParseInit ==
    /\ parser \in {[pc |-> "start", code |-> code, lexemes |-> <<>>, out |-> NoRet] :
                      code \in Sources}
    /\ envs = <<[members |-> StdLib, parent |-> 0]>>
    /\ stack = <<>>
    /\ ret = NoRet
    /\ ev = NoCall
    /\ prog = [name |-> "parse", n |-> 0]
    /\ nops = 0
    /\ dbg = [Eval |-> "NormalEval", debugMode |-> FALSE, leaked |-> 0]
    /\ lists = [op |-> "off"]
    /\ mods = [op |-> "off"]
    /\ repl = [op |-> "off"]

\* Parse(code) is read_from(tokenise(code)): first the tokens
Tokenise ==
    /\ parser.pc = "start"
    /\ parser' = [parser EXCEPT !.pc = "lexed", !.lexemes = tokenise(parser.code)]
    /\ UNCHANGED <<envs, stack, ret, ev, prog, nops, dbg, lists, mods, repl>>

\* then the form read from them
ReadFrom ==
    /\ parser.pc = "lexed"
    /\ LET r == read_from([i \in 1..Len(parser.lexemes) |-> parser.lexemes[i].tok])
       IN parser' = [parser EXCEPT !.pc = "done", !.out = [kind |-> r.kind, val |-> r.val]]
    /\ UNCHANGED <<envs, stack, ret, ev, prog, nops, dbg, lists, mods, repl>>

\* String(n) for an integer n
RECURSIVE NumberString(_)
NumberString(n) ==
    IF n < 0 THEN <<"-">> \o NumberString(0 - n)
    ELSE IF n < 10 THEN <<DigitStr(n)>>
    ELSE NumberString(n \div 10) \o <<DigitStr(n % 10)>>

\* to_string(val, withquotes) of a value that Parse hands back
RECURSIVE to_string(_, _)
to_string(val, withquotes) ==
    LET RECURSIVE Join(_, _)
        \* val.map(v => to_string(v, withquotes)).join(" ") from i on
        Join(xs, i) ==
            IF i > Len(xs) THEN <<>>
            ELSE (IF i > 1 THEN <<" ">> ELSE <<>>)
                    \o to_string(xs[i], withquotes) \o Join(xs, i + 1)
    IN CASE val.t = "undefined" -> <<"u", "n", "d", "e", "f", "i", "n", "e", "d">>
         [] val.t = "nil" -> <<"n", "i", "l">>
         \* Symbol.toString(): "'" + this.symbol
         [] val.t = "sym" -> <<"'">> \o val.v
         [] val.t = "str" -> IF withquotes THEN <<"\"">> \o val.v \o <<"\"">> ELSE val.v
         [] val.t = "list" -> <<"[">> \o Join(val.v, 1) \o <<"]">>
         [] val.t = "num" -> NumberString(val.v)
         [] val.t = "nan" -> <<"N", "a", "N">>
         [] OTHER -> <<"[object Object]">>

\* the host hands the parsed expression to to_string
ToStringCall ==
    /\ parser.pc = "done"
    /\ parser.out.kind = "value"
    /\ \E withquotes \in BOOLEAN :
            parser' = [pc |-> "printed", code |-> to_string(parser.out.val, withquotes),
                       lexemes |-> <<>>, out |-> parser.out, first |-> parser.out,
                       withquotes |-> withquotes]
    /\ UNCHANGED <<envs, stack, ret, ev, prog, nops, dbg, lists, mods, repl>>

\* and the text it got to Parse again
Reparse ==
    /\ parser.pc = "printed"
    /\ LET lx == tokenise(parser.code)
           r == read_from([i \in 1..Len(lx) |-> lx[i].tok])
       IN parser' = [parser EXCEPT !.pc = "reparsed", !.lexemes = lx,
                                   !.out = [kind |-> r.kind, val |-> r.val]]
    /\ UNCHANGED <<envs, stack, ret, ev, prog, nops, dbg, lists, mods, repl>>

ParseNext == Tokenise \/ ReadFrom \/ ToStringCall \/ Reparse

ParseSpec == ParseInit /\ [][ParseNext]_vars

\* ------------------------------------------------------------------ lists
\* A list is a host Array, held by reference: lists.arrays[i] is the content of
\* the Array i, and a cell holds a number or Ref(j), the Array j.
Ref(i) == [t |-> "ref", v |-> i]
Cells == {Num(1)} \cup {Ref(i) : i \in 1..Len(lists.arrays)}
\* b spread as the argument of concat: the cells of an Array, else b itself
Spread(b) == IF b.t = "ref" THEN lists.arrays[b.v] ELSE <<b>>
\* array.slice(from, to), counting from 0
SliceOf(cells, from, to) ==
    SubSeq(cells, from + 1, IF to < Len(cells) THEN to ELSE Len(cells))

\* A call returns res; `made` is the content of the Array it allocates (a
\* sequence of at most one content), and the Arrays it writes are in `arrays`.
ListStep(op, args, arrays, made, res, exps, base) ==
    /\ lists.n < MaxCalls
    /\ Len(arrays) + Len(made) <= MaxArrays
    /\ \A i \in 1..Len(made) : Len(made[i]) <= MaxCells
    /\ lists' = [arrays |-> arrays \o made, op |-> op, args |-> args, res |-> res,
                 exps |-> exps, base |-> base, n |-> lists.n + 1]
    /\ UNCHANGED <<envs, stack, ret, ev, prog, nops, dbg, parser, mods, repl>>
ListCalled(op, args, arrays, made, res) ==
    ListStep(op, args, arrays, made, res, lists.exps, lists.base)
Fresh1 == Ref(Len(lists.arrays) + 1)

\* 'car': x => x[0]
Car ==
    \E x \in 1..Len(lists.arrays) :
        ListCalled("car", <<Ref(x)>>, lists.arrays, <<>>,
                   IF lists.arrays[x] = <<>> THEN Undefined ELSE lists.arrays[x][1])

\* 'cdr': x => x.slice(1)   ('tail' is the same function)
Cdr ==
    \E x \in 1..Len(lists.arrays) :
        ListCalled("cdr", <<Ref(x)>>, lists.arrays,
                   <<SliceOf(lists.arrays[x], 1, Len(lists.arrays[x]))>>, Fresh1)

\* 'slice': ManyArgs(Args => Args[0].slice(...Args.slice(1)))
SliceCall ==
    \E x \in 1..Len(lists.arrays), from \in 0..1, to \in 1..MaxCells :
        ListCalled("slice", <<Ref(x), Num(from), Num(to)>>, lists.arrays,
                   <<SliceOf(lists.arrays[x], from, to)>>, Fresh1)

\* 'cons': (a, b) => [a].concat(b)
Cons ==
    \E a \in Cells, b \in Cells :
        ListCalled("cons", <<a, b>>, lists.arrays, <<(<<a>> \o Spread(b))>>, Fresh1)

\* 'concat': (a, b) => a.concat(b)
Concat ==
    \E x \in 1..Len(lists.arrays), b \in Cells :
        ListCalled("concat", <<Ref(x), b>>, lists.arrays,
                   <<(lists.arrays[x] \o Spread(b))>>, Fresh1)

\* 'list': ManyArgs(Args => Args), Args being slice.call(arguments)
ListCall ==
    \E a \in Cells, n \in 0..2 :
        ListCalled("list", SubSeq(<<a, a>>, 1, n), lists.arrays,
                   <<SubSeq(<<a, a>>, 1, n)>>, Fresh1)

\* (mutant) case 'begin' with Exps = X, the list of the expression tree itself
ExpsShared(x) == [made |-> <<>>, ref |-> x]

\* case 'begin': var Exps = X.slice(1);
BeginExps(x) ==
    [made |-> <<SliceOf(lists.arrays[x], 1, Len(lists.arrays[x]))>>,
     ref |-> Len(lists.arrays) + 1]

\* Eval reaches (begin ...) held in the Array x: Exps is made, and base is the
\* number of Arrays there were before
BeginForm ==
    \E x \in 1..Len(lists.arrays) :
        /\ lists.exps = 0
        /\ lists.arrays[x] # <<>>
        /\ ListStep("begin", <<Ref(x)>>, lists.arrays, BeginExps(x).made, Undefined,
                    BeginExps(x).ref, Len(lists.arrays))

\* Eval(Exps.shift(), Env) in the loop, and X = Exps.shift() after it
BeginShift ==
    /\ lists.exps # 0
    /\ LET Exps == lists.arrays[lists.exps]
       IN IF Exps = <<>>
          THEN ListStep("shift", <<Ref(lists.exps)>>, lists.arrays, <<>>, Undefined,
                        0, lists.base)
          ELSE ListStep("shift", <<Ref(lists.exps)>>,
                        [lists.arrays EXCEPT ![lists.exps] = Tail(Exps)], <<>>, Exps[1],
                        IF Len(Exps) = 1 THEN 0 ELSE lists.exps, lists.base)

\* proc[method](...args) with proc an Array and method push: (L 'push a)
MemberPush ==
    \E x \in 1..Len(lists.arrays), a \in {Num(2)} :
        /\ Len(lists.arrays[x]) < MaxCells
        /\ ListCalled("push", <<Ref(x), a>>,
                      [lists.arrays EXCEPT ![x] = Append(@, a)], <<>>,
                      Num(Len(lists.arrays[x]) + 1))

\* 'dict:set': (dict, key, value) => dict[to_s(key)] = value, dict an Array and
\* key an index of it
DictSet ==
    \E x \in 1..Len(lists.arrays), value \in {Num(2)} :
        \E key \in 1..Len(lists.arrays[x]) :
            ListCalled("dict:set", <<Ref(x), Num(key - 1), value>>,
                       [lists.arrays EXCEPT ![x][key] = value], <<>>, value)

\* The expression tree handed to Eval is one list; nothing has been called.
ListInit ==
    /\ lists \in {[arrays |-> <<tree>>, exps |-> 0, base |-> 0, op |-> "none",
                   args |-> <<>>, res |-> Undefined, n |-> 0] :
                     tree \in {<<>>, <<Num(1)>>, <<Num(1), Num(2)>>}}
    /\ envs = <<[members |-> StdLib, parent |-> 0]>>
    /\ stack = <<>>
    /\ ret = NoRet
    /\ ev = NoCall
    /\ prog = [name |-> "lists", n |-> 0]
    /\ nops = 0
    /\ dbg = [Eval |-> "NormalEval", debugMode |-> FALSE, leaked |-> 0]
    /\ parser = [pc |-> "off"]
    /\ mods = [op |-> "off"]
    /\ repl = [op |-> "off"]

ListNext ==
    \/ Car
    \/ Cdr
    \/ SliceCall
    \/ Cons
    \/ Concat
    \/ ListCall
    \/ BeginForm
    \/ BeginShift
    \/ MemberPush
    \/ DictSet

ListSpec == ListInit /\ [][ListNext]_vars

\* ------------------------------------------------------------ modules
\* Text is a sequence of pieces, + concatenates, "" is <<>>.
\* core.lisp, configurables: the prefixes and suffixes tried for a module name
\* (path 'resolve drops the prefix "./"; the search paths "" and the runtime's
\* directory name one directory here)
ModulePrefixes == << <<"module/">>, <<>> >>
ModuleSuffixes == << <<".lisp">>, <<>>, <<"/index.lisp">> >>

Import(name) == [form |-> "import", name |-> name]
Export(prefix, name) == [form |-> "export", prefix |-> prefix, name |-> name]

\* The module files on disk: (import Name) and (export 'Module Name) forms of
\* each body, in order.  s imports itself, p and q import each other.
Files ==
    [path \in {<<"module/", "a", ".lisp">>, <<"module/", "b", ".lisp">>,
               <<"module/", "s", ".lisp">>, <<"module/", "p", ".lisp">>,
               <<"module/", "q", ".lisp">>} |->
        CASE path[2] = "a" -> << Export("a", "f"), Export("a", "g") >>
          [] path[2] = "b" -> << Import(<<"a">>), Export("b", "h") >>
          [] path[2] = "s" -> << Export("s", "f"), Import(<<"s">>) >>
          [] path[2] = "p" -> << Import(<<"q">>), Export("p", "f") >>
          [] OTHER -> << Import(<<"p", ".lisp">>), Export("", "_") >>]
Paths == DOMAIN Files

\* The names handed to import and Require
ModuleNames == {<<"a">>, <<"a", ".lisp">>, <<"b">>, <<"s">>, <<"p">>, <<"nosuch">>}

\* import-findmodule: the first existing file among search path + prefix + Name
\* + suffix, prefixes outermost; Name itself when there is none
RECURSIVE FindFrom(_, _, _)
FindFrom(Name, i, j) ==
    IF i > Len(ModulePrefixes) THEN Name
    ELSE IF j > Len(ModuleSuffixes) THEN FindFrom(Name, i + 1, 1)
    ELSE IF ModulePrefixes[i] \o Name \o ModuleSuffixes[j] \in Paths
         THEN ModulePrefixes[i] \o Name \o ModuleSuffixes[j]
    ELSE FindFrom(Name, i, j + 1)
import_findmodule(Name) == FindFrom(Name, 1, 1)

\* export: FullName = ModulePrefix + to_s(Name), ModulePrefix = "" or Module + ":"
FullName(item) ==
    (IF item.prefix = "" THEN <<>> ELSE <<item.prefix, ":">>) \o <<item.name>>

\* host stack exhausted by nested Eval calls
StackError == ErrorV(Str("RangeError"), Str("Maximum call stack size exceeded"))
\* fs.readFileSync of a file that is not there
NoEntError == ErrorV(Str("Error"), Str("ENOENT"))

\* CoreEnvironment after core.lisp was evaluated in it: the names core defines
\* (their values play no part here)
CoreNames ==
    {"fs", "fs:exists", "path", "exports", "ModuleSearchPaths", "ModulePrefixes",
     "ModuleSuffixes", "core:add-module-prefix", "core:add-module-suffix", "error:name",
     "error:message", "error:stack", "error:code", "error-lookup", "catch",
     "import-findmodule", "import", "ImportCache", "icache:get?", "icache:get",
     "icache:set", "get-module", "TopLevel", "module-evaluate", "import-module", "export",
     "export-toplevel", "export-core", "Flags", "lispy:flag?", "lispy:flag", "lispy:flag!"}
CoreEnvironment ==
    << [members |-> StdLib, parent |-> 0],
       [members |-> [x \in CoreNames |-> Proc(x)], parent |-> 1] >>

\* module-evaluate in progress: the file, the next form of its body, its
\* Exports dict and the export names import bound in its ModuleEnv
ModFrame(path, exports) == [path |-> path, pos |-> 1, exports |-> exports, bound |-> {}]

ModTop == mods.frames[Len(mods.frames)]
ModIdle == mods.want = <<>>
AtItem(form) ==
    /\ mods.frames # <<>> /\ ModIdle
    /\ ModTop.pos <= Len(Files[ModTop.path])
    /\ Files[ModTop.path][ModTop.pos].form = form

\* (import-module Module (env:current)) with the Module get-module returned:
\* every key of Module is defined in the importer's environment, and Module is
\* the value of the import form
import_module(m, path, id) ==
    IF m.frames = <<>>
    THEN [m EXCEPT !.handed[path] = @ \cup {id}, !.bound = @ \cup m.exps[id],
                   !.result = Returned(Dict(m.exps[id])), !.want = <<>>]
    ELSE [m EXCEPT !.handed[path] = @ \cup {id}, !.want = <<>>,
                   !.frames[Len(m.frames)].bound = @ \cup m.exps[id],
                   !.frames[Len(m.frames)].pos = @ + 1]

ModInit ==
    /\ mods = [op |-> "none", cache |-> [p \in Paths |-> 0], exps |-> <<>>,
               frames |-> <<>>, want |-> <<>>, evals |-> [p \in Paths |-> 0],
               handed |-> [p \in Paths |-> {}], bound |-> {}, result |-> NoRet, n |-> 0]
    /\ envs = CoreEnvironment
    /\ stack = <<>>
    /\ ret = NoRet
    /\ ev = NoCall
    /\ prog = [name |-> "modules", n |-> 0]
    /\ nops = 0
    /\ dbg = [Eval |-> "NormalEval", debugMode |-> FALSE, leaked |-> 0]
    /\ parser = [pc |-> "off"]
    /\ lists = [op |-> "off"]
    /\ repl = [op |-> "off"]

ModStep(m) ==
    /\ mods' = m
    /\ UNCHANGED <<envs, stack, ret, ev, prog, nops, dbg, parser, lists, repl>>

\* (import Name) in the program: (import-module (get-module Name) (env:current));
\* get-module starts with FullPath = (import-findmodule (to_s Path))
ImportCall ==
    \E name \in ModuleNames :
        /\ mods.frames = <<>> /\ ModIdle
        /\ mods.n < MaxImports
        /\ ModStep([mods EXCEPT !.op = "import", !.want = import_findmodule(name),
                                !.result = NoRet, !.n = @ + 1])

\* (import Name) in the body of a module
BodyImport ==
    /\ AtItem("import")
    /\ ModStep([mods EXCEPT !.op = "import",
                   !.want = import_findmodule(Files[ModTop.path][ModTop.pos].name)])

\* (if (icache:get? FullPath) (icache:get FullPath) ...)
CacheHit ==
    /\ mods.want \in Paths
    /\ mods.cache[mods.want] # 0
    /\ ModStep([import_module(mods, mods.want, mods.cache[mods.want]) EXCEPT !.op = "cached"])

\* (define Module (module-evaluate (fs 'readFileSync FullPath "utf8"))): a new
\* Exports dict, and the body handed to eval
ModuleEvaluate ==
    /\ mods.want \in Paths
    /\ mods.cache[mods.want] = 0
    /\ Len(mods.frames) < MaxDepth
    /\ ModStep([mods EXCEPT !.op = "evaluate", !.want = <<>>,
                   !.exps = Append(@, {}),
                   !.evals[mods.want] = @ + 1,
                   !.frames = Append(@, ModFrame(mods.want, Len(mods.exps) + 1))])

\* the nested module-evaluate calls exhaust the host stack: the RangeError
\* unwinds every get-module under way (none of them is inside a try)
StackOverflow ==
    /\ mods.want \in Paths
    /\ mods.cache[mods.want] = 0
    /\ Len(mods.frames) = MaxDepth
    /\ ModStep([mods EXCEPT !.op = "overflow", !.want = <<>>, !.frames = <<>>,
                   !.result = Thrown(StackError)])

\* no file was found: FullPath is the name, and readFileSync throws
ReadFails ==
    /\ ~ModIdle
    /\ mods.want \notin Paths
    /\ ModStep([mods EXCEPT !.op = "readfails", !.want = <<>>, !.frames = <<>>,
                   !.result = Thrown(NoEntError)])

\* (export 'Module Name): (dict:update exports FullName Name) in the ModuleEnv
BodyExport ==
    /\ AtItem("export")
    /\ ModStep([mods EXCEPT !.op = "export",
                   !.exps[ModTop.exports] = @ \cup {FullName(Files[ModTop.path][ModTop.pos])},
                   !.frames[Len(mods.frames)].pos = @ + 1])

\* module-evaluate returns Exports; (icache:set FullPath Module); Module
ModuleDone ==
    /\ mods.frames # <<>> /\ ModIdle
    /\ ModTop.pos > Len(Files[ModTop.path])
    /\ ModStep([import_module([mods EXCEPT !.frames = SubSeq(@, 1, Len(@) - 1),
                                         !.cache[ModTop.path] = ModTop.exports],
                              ModTop.path, ModTop.exports)
                EXCEPT !.op = "done"])

\* Require(path): var module = CoreEnvironment.get('import-require')(path);
\* core.lisp defines no import-require, so get throws before anything is called
RequireCall ==
    \E name \in ModuleNames :
        LET loader == EnvGet(envs, 2, Str("import-require"))
        IN /\ mods.frames = <<>> /\ ModIdle
           /\ mods.n < MaxImports
           /\ loader.kind = "throw"
           /\ ModStep([mods EXCEPT !.op = "require", !.n = @ + 1,
                          !.result = Thrown(loader.val)])

ModNext ==
    \/ ImportCall
    \/ BodyImport
    \/ CacheHit
    \/ ModuleEvaluate
    \/ StackOverflow
    \/ ReadFails
    \/ BodyExport
    \/ ModuleDone
    \/ RequireCall

ModSpec == ModInit /\ [][ModNext]_vars

\* ------------------------------------------------------------ repl.lisp
\* Configurable options
PromptDefault == "Lispy> "
PromptContinuation == "  ...> "

\* function Parse (code) { return read_from(tokenise(code)); }
Parse(code) ==
    LET lexemes == tokenise(code)
    IN read_from([i \in 1..Len(lexemes) |-> lexemes[i].tok])

\* The keys add-command stored in Commands: \usage \q \c \? \s \p \d \t and ""
CommandNames ==
    { <<"\\", "u", "s", "a", "g", "e">>, <<"\\", "q">>, <<"\\", "c">>, <<"\\", "?">>,
      <<"\\", "s">>, <<"\\", "p">>, <<"\\", "d">>, <<"\\", "t">>, <<>> }
\* a name every object inherits from Object.prototype
ProtoWord == <<"t", "o", "S", "t", "r", "i", "n", "g">>

\* (command? Word): (dict:key? Commands Word), which is `to_s(Word) in Commands`
command_p(Word) == Word \in CommandNames \/ Word = ProtoWord

\* ((split Input " ") 'filter (lambda (W) (length W))): the words from i on,
\* cur being the word under way
RECURSIVE SplitWords(_, _, _)
SplitWords(Input, i, cur) ==
    IF i > Len(Input) THEN (IF cur = <<>> THEN <<>> ELSE <<cur>>)
    ELSE IF Input[i] = " "
         THEN (IF cur = <<>> THEN <<>> ELSE <<cur>>) \o SplitWords(Input, i + 1, <<>>)
    ELSE SplitWords(Input, i + 1, Append(cur, Input[i]))
Words(Input) == SplitWords(Input, 1, <<>>)
\* (define First (if (null? Words) "" (head Words)))
First(Input) == IF Words(Input) = <<>> THEN <<>> ELSE Head(Words(Input))

\* (quit): (set! ExitFlag true) (RL 'close)
quit(r) == [r EXCEPT !.ExitFlag = TRUE, !.status = "closed"]

\* (command! Word Args): the body add-command stored under Word.  \usage and \?
\* print; \s, \d and \t toggle flags of the evaluation that are not kept here.
\* Under an inherited name dict:get finds a host function, (index C 3) of it is
\* undefined, and applying undefined throws out of the line handler.
command_bang(r, Word) ==
    CASE Word = <<"\\", "c">> ->
            [r EXCEPT !.ContinuationFlag = FALSE, !.prompt = PromptDefault]
      [] Word = <<"\\", "q">> -> quit(r)
      [] Word = <<"\\", "p">> -> [r EXCEPT !.ShowParserErrorFlag = ~@]
      [] Word = ProtoWord -> [r EXCEPT !.status = "crashed"]
      [] OTHER -> r

\* (mutant) a continuation that leaves the prompt as it is
then_continuation_quiet(r, Input) ==
    [r EXCEPT !.ContinuationFlag = TRUE, !.ContinuedLine = Input]

\* then-continuation
then_continuation(r, Input) ==
    [r EXCEPT !.ContinuationFlag = TRUE, !.ContinuedLine = Input,
              !.prompt = PromptContinuation]

\* then-run: the parsed code is evaluated in ReplEnv, whose ancestors do not
\* hold the state of the REPL, and the value or the caught error is printed
then_run(r, Parsed) == [r EXCEPT !.ran = TRUE]

\* the text parse-then-run hands to parse
LineToParse(r, Line) == IF r.ContinuationFlag THEN r.ContinuedLine \o Line ELSE Line

\* parse-then-run
parse_then_run(r, Line0) ==
    LET Line == LineToParse(r, Line0)
        r1 == IF r.ContinuationFlag
              THEN [r EXCEPT !.ContinuationFlag = FALSE, !.prompt = PromptDefault]
              ELSE r
        out == Parse(Line)
        r2 == [r1 EXCEPT !.parsed = Line, !.flagAtParse = r1.ContinuationFlag]
    IN IF out.kind = "throw" THEN then_continuation(r2, Line) ELSE then_run(r2, out.val)

\* (if (not ExitFlag) (RL 'prompt)): the prompt set last is shown
Prompted(r) ==
    IF r.status = "waiting" /\ ~r.ExitFlag THEN [r EXCEPT !.shown = r.prompt] ELSE r

\* The lines typed: forms that are open, closed or closing, a blank line,
\* commands, a name Object.prototype holds
ReplLines ==
    { <<"(", "a">>, <<"(">>, <<")">>, <<" ", "a", ")">>, <<"(", "a", ")">>, <<"a">>,
      <<>>, <<" ">>, <<"\\", "c">>, <<"\\", "c", " ", "a">>, <<"\\", "p">>,
      <<"\\", "u", "s", "a", "g", "e">>, <<"\\", "q">>, ProtoWord }

ReplInit ==
    /\ repl = [ContinuationFlag |-> FALSE, ContinuedLine |-> <<>>, ExitFlag |-> FALSE,
               ShowParserErrorFlag |-> FALSE, AbortOnInterruptFlag |-> FALSE,
               prompt |-> PromptDefault, shown |-> PromptDefault, status |-> "waiting",
               op |-> "start", line |-> <<>>, parsed |-> <<>>, flagAtParse |-> FALSE,
               ran |-> FALSE]
    /\ envs = <<[members |-> StdLib, parent |-> 0]>>
    /\ stack = <<>>
    /\ ret = NoRet
    /\ ev = NoCall
    /\ prog = [name |-> "repl", n |-> 0]
    /\ nops = 0
    /\ dbg = [Eval |-> "NormalEval", debugMode |-> FALSE, leaked |-> 0]
    /\ parser = [pc |-> "off"]
    /\ lists = [op |-> "off"]
    /\ mods = [op |-> "off"]

\* execute, the handler of a line of input
Execute ==
    \E Input \in ReplLines :
        /\ repl.status = "waiting"
        /\ Len(LineToParse(repl, Input)) <= MaxLine
        /\ LET r == [repl EXCEPT !.op = "line", !.line = Input, !.ran = FALSE]
           IN repl' = Prompted(IF command_p(First(Input))
                               THEN command_bang(r, First(Input))
                               ELSE parse_then_run(r, Input))
        /\ UNCHANGED <<envs, stack, ret, ev, prog, nops, dbg, parser, lists, mods>>

\* the handler of SIGINT (CTRL+C)
Sigint ==
    /\ repl.status = "waiting"
    /\ LET r == [repl EXCEPT !.op = "sigint", !.line = <<>>, !.ran = FALSE]
       IN repl' = IF r.ContinuationFlag
                  THEN [command_bang(r, <<"\\", "c">>) EXCEPT !.shown = PromptDefault]
                  ELSE IF r.AbortOnInterruptFlag THEN quit(r)
                  ELSE [r EXCEPT !.AbortOnInterruptFlag = TRUE, !.shown = r.prompt]
    /\ UNCHANGED <<envs, stack, ret, ev, prog, nops, dbg, parser, lists, mods>>

ReplNext ==
    \/ Execute
    \/ Sigint

ReplSpec == ReplInit /\ [][ReplNext]_vars

\* The evaluation has ended: ret holds the value returned to the host, or the
\* error that reached it.
Done == stack = <<>>
DoneWith(name, n, value) == prog = [name |-> name, n |-> n] /\ Done /\ ret = Returned(value)

\* ------------------------------------------------- Environment properties
\* The environments from e up to its root, nearest first.
RECURSIVE Ancestry(_, _)
Ancestry(es, e) ==
    IF es[e].parent = 0 THEN <<e>> ELSE <<e>> \o Ancestry(es, es[e].parent)

\* Those among them in which name k has been defined, nearest first.
BindersOf(es, e, k) == SelectSeq(Ancestry(es, e), LAMBDA i : k \in DOMAIN es[i].members)

\* r is the normal return of the value v
Is(r, v) == r.kind = "value" /\ SameVal(r.val, v)

IsError(r, name) == r.kind = "throw" /\ r.val.t = "error" /\ r.val.name = Str(name)

\* C5: for every environment E (a parentless root included) and name n, if
\* present(E, n) then get(E, n) returns the value bound to n in the nearest
\* environment of E's chain that binds n, and otherwise get(E, n) raises
\* KeyNotFound and no other error.
C5_PresentDecidesGet ==
    ev.op = "get" =>
        LET k == KeyName(ev.key)
            b == BindersOf(envs, ev.env, k)
        IN IF EnvPresent(envs, ev.env, ev.key).val = Bool(TRUE)
           THEN ret.kind = "value" /\ b # <<>> /\ SameVal(ret.val, envs[b[1]].members[k])
           ELSE IsError(ret, "KeyNotFoundError")

\* C6: set never creates a binding: when no environment from the current one
\* up to the root has had n defined in it, set(n, v) raises KeyNotFound and
\* leaves every environment unchanged; otherwise it overwrites n in the nearest
\* environment that binds it; the names bound in each environment are the same
\* before and after.
C6_SetNeverCreates ==
    [][ev'.op = "set" =>
        LET k == KeyName(ev'.key)
            b == BindersOf(envs, ev'.env, k)
        IN /\ \A i \in 1..Len(envs) : DOMAIN envs'[i].members = DOMAIN envs[i].members
           /\ IF b = <<>>
              THEN IsError(ret', "KeyNotFoundError") /\ envs' = envs
              ELSE /\ Is(ret', ev'.val)
                   /\ envs' = [envs EXCEPT ![b[1]].members[k] = ev'.val]]_vars

\* C7: define and update write only to the environment they are called on:
\* define(E, n, v) binds n to v in E, returns v, and leaves E's other names, E's
\* parent, every ancestor and every other environment unchanged, also when an
\* ancestor already binds n; update changes no environment but E.
C7_DefineWritesLocally ==
    [][ev'.op \in {"define", "update"} =>
        LET e == ev'.env
        IN /\ Len(envs') = Len(envs)
           /\ \A i \in 1..Len(envs) : i # e => envs'[i] = envs[i]
           /\ envs'[e].parent = envs[e].parent
           /\ ev'.op = "define" =>
                LET k == KeyName(ev'.key)
                IN /\ Is(ret', ev'.val)
                   /\ DOMAIN envs'[e].members = DOMAIN envs[e].members \cup {k}
                   /\ envs'[e].members[k] = ev'.val
                   /\ \A x \in DOMAIN envs[e].members :
                        x # k => envs'[e].members[x] = envs[e].members[x]]_vars

\* define has just shadowed a binding of the same name held by an ancestor.
C7_Witness ==
    /\ ev.op = "define"
    /\ LET b == BindersOf(envs, ev.env, KeyName(ev.key))
       IN /\ Len(b) >= 2
          /\ b[1] = ev.env
          /\ envs[b[1]].members[KeyName(ev.key)] = ev.val
          /\ envs[b[2]].members[KeyName(ev.key)] # ev.val

\* --------------------------------------------------- evaluator properties
TopOf(stk) == stk[Len(stk)]

\* The environment e was created by this step, as a child of `parent`, and no
\* older environment changed.
FreshChild(es, es2, e, parent) ==
    /\ Len(es2) = Len(es) + 1
    /\ e = Len(es2)
    /\ es2[e].parent = parent
    /\ \A i \in 1..Len(es) : es2[i] = es[i]

\* C1: lexical scoping.  Evaluating (lambda params body) in E yields a Lambda
\* that captured exactly E; every application of a Lambda, from whatever
\* environment, evaluates its body in an environment created for the call whose
\* parent is the captured one; so a free variable resolves through the captured
\* chain (program "lexical" yields the x of the definition site, 1, not the
\* caller's 2) and a binding the caller made is not visible (program "late").
C1_LexicalScoping ==
    [][/\ ev'.op = "lambda" =>
            /\ Is(ret', LambdaV(Idx(TopOf(stack).X, 1), Idx(TopOf(stack).X, 2),
                                       TopOf(stack).Env))
            /\ ret'.val.env = ev'.env
       /\ (ev'.op = "apply" /\ ret'.kind = "none") =>
            /\ FreshChild(envs, envs', TopOf(stack').Env, TopOf(stack).proc.env)
            /\ SameVal(TopOf(stack').X, TopOf(stack).proc.body)
            /\ Len(stack') = Len(stack)
       /\ (Done' /\ prog.name = "lexical") => Is(ret', Num(1))
       /\ (Done' /\ prog.name = "late") => Is(ret', Bool(FALSE))
       /\ (Done' /\ prog.name = "closure") => Is(ret', Num(15))]_vars

\* A Lambda is being applied from an environment that is not the one it captured.
C1_Witness ==
    /\ ev.op = "apply"
    /\ ret.kind = "none"
    /\ prog.name = "lexical"
    /\ ev.proc.env # ev.caller
    /\ envs[Top.Env].parent = ev.proc.env

\* C2: the tail-recursive sample (fac2a, whose recursive call is the chosen
\* branch of an if) ends with a value for every number n of recursive calls, and
\* while it runs at most three Eval activations are on the host stack: the one
\* running the loop, one for an operand, one for an operand of that operand.
C2_TailCallsBounded ==
    /\ [](prog.name = "tail" => Len(stack) <= 1 + 2)
    /\ <>(Done /\ (prog.name = "tail" => ret.kind = "value"))

\* The longest recursion of the bound has run: one environment per call of fac2a.
C2_Witness ==
    /\ prog = [name |-> "tail", n |-> MaxN]
    /\ Done
    /\ ret.kind = "value"
    /\ Len(envs) = 2 + 1 + MaxN

IsFalse(v) == v.t = "bool" /\ ~v.v
\* The values JavaScript's conditional operator takes for false.
Falsy(v) ==
    \/ v.t \in {"undefined", "nil", "nan"}
    \/ IsFalse(v)
    \/ v.t = "num" /\ v.v = 0
    \/ v.t = "str" /\ v.v = ""

\* a step chose the branch of (if C T E) for the condition value ev.cond
Branched == ev.op = "branch" /\ Len(ev.form.v) = 4

\* C3 as stated: the T branch is taken unless the condition's value is exactly
\* false, so (if false 1 2) = 2 and (if 0 1 2) = (if nil 1 2) = (if "" 1 2) =
\* (if '() 1 2) = 1.
C3_OnlyFalseSelectsElse ==
    /\ Branched => SameVal(Top.X, IF IsFalse(ev.cond) THEN Idx(ev.form, 3) ELSE Idx(ev.form, 2))
    /\ (Done /\ prog.name = "if" /\ prog.n \in 1..5) =>
            Is(ret, Num(IF prog.n = 1 THEN 2 ELSE 1))

\* C3 amended: the T branch is taken unless the condition's value is false, nil,
\* undefined, 0, NaN or the empty string; every other value, the empty list
\* included, selects T: (if false 1 2) = (if 0 1 2) = (if nil 1 2) =
\* (if "" 1 2) = 2 and (if '() 1 2) = 1.
C3_HostTruthiness ==
    /\ Branched => SameVal(Top.X, IF Falsy(ev.cond) THEN Idx(ev.form, 3) ELSE Idx(ev.form, 2))
    /\ (Done /\ prog.name = "if" /\ prog.n \in 1..5) =>
            Is(ret, Num(IF prog.n \in 1..4 THEN 2 ELSE 1))

\* (if 0 1 2) has taken its else branch.
C3_Witness ==
    /\ Branched
    /\ SameVal(ev.cond, Num(0))
    /\ SameVal(Top.X, Num(2))

\* names[i] bound to values[i], or to undefined past the values supplied
BoundPairwise(members, names, values) ==
    /\ DOMAIN members = {names[i].v : i \in 1..Len(names)}
    /\ \A i \in 1..Len(names) : SameVal(members[names[i].v], At(values, i))

\* The binding rule: one Symbol takes the whole list; a list of Symbols is bound
\* pairwise, missing values undefined, surplus values dropped.
BoundAs(members, params, values) ==
    IF params.t = "sym"
    THEN DOMAIN members = {params.v} /\ SameVal(members[params.v], List(values))
    ELSE BoundPairwise(members, params.v, values)

\* C4: a Macro is applied to its operand expressions unevaluated, bound to its
\* parameters in a new child of the macro's captured environment; its body is
\* evaluated there, and the expansion is then evaluated by the calling
\* activation in the caller's environment, so the expansion's names resolve
\* there and its definitions land there (program "macrodef" yields 5).
C4_MacroExpandsInCaller ==
    [][/\ (ev'.op = "expand" /\ ret'.kind = "none") =>
            /\ FreshChild(envs, envs', TopOf(stack').Env, ret.val.env)
            /\ SameVal(TopOf(stack').X, ret.val.body)
            /\ BoundAs(envs'[Len(envs')].members, ret.val.args, Rest(TopOf(stack).X))
            /\ Len(stack') = Len(stack) + 1
       /\ ev'.op = "expanded" =>
            /\ SameVal(TopOf(stack').X, ret.val)
            /\ TopOf(stack').Env = TopOf(stack).Env
            /\ TopOf(stack').Env # TopOf(stack).newEnv
            /\ Len(stack') = Len(stack)
            /\ envs' = envs
       /\ (Done' /\ prog.name = "macrodef") => Is(ret', Num(5))
       /\ (Done' /\ prog.name = "when") => Is(ret', Num(42))
       /\ (Done' /\ prog.name = "macroraw") =>
            Is(ret', L(<<L(<<S("nosuch"), Num(1)>>), S("nosuch")>>))]_vars

\* An expansion that defines a name is about to be evaluated in the environment
\* of a lambda call, which is not the environment the macro captured.
C4_Witness ==
    /\ ev.op = "expanded"
    /\ prog.name = "macrodef"
    /\ SameVal(Top.X, L(<<S("define"), S("y"), S("x")>>))
    /\ Top.Env # ev.proc.env
    /\ envs[Top.Env].parent = 2

\* C8: on applying a Lambda or Macro, a single Symbol parameter is bound to the
\* whole argument list; of k Symbol parameters and m arguments, parameter i is
\* bound to argument i for i <= min(k, m), the parameters past m are bound to
\* undefined (and are bound: defined? finds them), the arguments past k are
\* dropped.
C8_ParameterBinding ==
    /\ (ev.op \in {"apply", "expand"} /\ ret.kind = "none") =>
            BoundAs(envs[Top.Env].members, ev.proc.args, ev.args)
    /\ (Done /\ prog.name = "varargs") => Is(ret, L(<<Num(1), Num(2), Num(3)>>))
    /\ (Done /\ prog.name = "fewer") =>
            Is(ret, L(<<Num(1), Undefined, Undefined, Bool(TRUE)>>))
    /\ (Done /\ prog.name = "extra") => Is(ret, Num(1))

\* Three parameters have been bound from one argument.
C8_Witness ==
    /\ ev.op = "apply"
    /\ ret.kind = "none"
    /\ prog.name = "fewer"
    /\ ev.proc.args.t = "list"
    /\ Len(ev.proc.args.v) = 3
    /\ Len(ev.args) = 1
    /\ SameVal(envs[Top.Env].members["c"], Undefined)

\* C9: (try E H).  E is evaluated first; its value, when it returns, is the
\* result, and H is not evaluated.  When E raises e, H is evaluated in the
\* environment of the try; a Lambda handler's body then runs in a new child of
\* the environment the handler captured with its first parameter bound to e, a
\* host procedure is called with e, anything else raises InvalidArgument.
C9_TryHandler ==
    [][/\ ev'.op = "try" =>
            /\ SameVal(TopOf(stack').X, Idx(TopOf(stack).X, 1))
            /\ TopOf(stack').Env = TopOf(stack).Env
       /\ ev'.op = "tried" => (ret' = ret /\ ret.kind = "value" /\ stack' = Pop(stack))
       /\ ev'.op = "catch" =>
            /\ SameVal(TopOf(stack').X, Idx(TopOf(stack).X, 2))
            /\ TopOf(stack').Env = TopOf(stack).Env
            /\ SameVal(stack'[Len(stack)].err, ret.val)
            /\ Len(stack') = Len(stack) + 1
       /\ (ev'.op = "handler" /\ ret.val.t = "lambda" /\ ret'.kind = "none") =>
            /\ FreshChild(envs, envs', TopOf(stack').Env, ret.val.env)
            /\ SameVal(TopOf(stack').X, ret.val.body)
            /\ Len(ret.val.args.v) > 0 =>
                 SameVal(envs'[Len(envs')].members[ret.val.args.v[1].v], TopOf(stack).err)
       /\ (ev'.op = "handler" /\ ret.val.t = "proc") =>
            /\ ret.val.v = "list" => Is(ret', L(<<TopOf(stack).err>>))
       /\ (ev'.op = "handler" /\ ret.val.t \notin {"lambda", "proc"}) =>
            IsError(ret', "InvalidArgumentError")
       /\ (Done' /\ prog.name = "try_ok") => Is(ret', L(<<Num(1), Num(0)>>))
       /\ (Done' /\ prog.name = "try_env") =>
            Is(ret', L(<<Num(9), Num(5), Undefined>>))
       /\ (Done' /\ prog.name = "try_local") => Is(ret', Num(7))
       /\ (Done' /\ prog.name = "try_proc") => Is(ret', L(<<Num(5)>>))
       /\ (Done' /\ prog.name = "try_bad") => IsError(ret', "InvalidArgumentError")]_vars

\* A Lambda handler is running with the caught error as its first argument, in a
\* child of the environment it captured, which is not the environment of the try.
C9_Witness ==
    /\ ev.op = "handler"
    /\ ret.kind = "none"
    /\ prog.name = "try_env"
    /\ SameVal(envs[Top.Env].members["e"], Num(5))
    /\ envs[Top.Env].parent = ev.handler.env
    /\ \A i \in 1..Len(envs) : envs[i].parent # 0 => envs[i].parent # Top.Env

\* C10: applying a value that is no Macro, Lambda, SpecialProcedure, Procedure,
\* Dict or Environment (a Number, String, Bool, Nil, ... in operator position)
\* raises InvalidOperation.
C10_NonCallableRaisesInvalidOperation ==
    /\ (ev.op = "member" /\ ev.proc.t # "env") => IsError(ret, "InvalidOperationError")
    /\ ev.op = "noproc" => IsError(ret, "InvalidOperationError")
    /\ (Done /\ prog.name = "apply") => IsError(ret, "InvalidOperationError")

\* C11: evaluation order.  In an application that is no macro call the operator
\* is evaluated first, then the operands left to right, each finished before the
\* next starts, and the procedure is entered only when all are done; the
\* expressions of a begin are evaluated in textual order; in a macro call no
\* operand is evaluated before the expansion has been computed.  The programs
\* "order_*" append a digit to t each time a subexpression is evaluated.
C11_EvaluationOrder ==
    [][/\ ev'.op = "app" => SameVal(TopOf(stack').X, Idx(TopOf(stack).X, 0))
       /\ (ev'.op \in {"args", "arg"} /\ Len(stack') > Len(stack)) =>
            LET f == stack'[Len(stack)]
            IN /\ f.pc = "args"
               /\ SameVal(TopOf(stack').X, Rest(f.X)[Len(f.vals) + 1])
               /\ Len(f.vals) + 1 + Len(f.todo) = Len(Rest(f.X))
               /\ SameVal(L(f.vals), L(IF ev'.op = "args" THEN <<>>
                                        ELSE Append(TopOf(stack).vals, ret.val)))
       /\ ev'.op \in {"special", "apply", "host", "member"} =>
            /\ TopOf(stack).pc = "call"
            /\ Len(TopOf(stack).vals) = Len(Rest(TopOf(stack).X))
       /\ (ev'.op \in {"begin", "next"} /\ Len(stack') > Len(stack)) =>
            LET f == stack'[Len(stack)]
                E == Rest(f.X)
            IN SameVal(TopOf(stack').X, E[Len(E) - Len(f.todo)])
       /\ ev'.op = "expand" => TopOf(stack).vals = <<>>
       /\ (Done' /\ prog.name = "order_args") => Is(ret', L(<<Num(12), Num(123)>>))
       /\ (Done' /\ prog.name = "order_begin") => Is(ret', Num(123))
       /\ (Done' /\ prog.name = "order_macro") => Is(ret', Num(12))]_vars

\* The procedure of "order_args" is entered after the operator and both operands
\* ran, in that order.
C11_Witness ==
    /\ ev.op = "host"
    /\ prog.name = "order_args"
    /\ SameVal(ev.proc, Proc("list"))
    /\ SameVal(L(ev.args), L(<<Num(12), Num(123)>>))

\* C12: re-entrancy.  A host primitive that calls back into Eval (map applying a
\* Lambda through the function MakeCallableLambda built) starts an activation of
\* its own: no step changes the expression or the environment of an activation
\* below the innermost one, so when the nested evaluation has returned or raised
\* the activation that called the primitive, and every one below it, holds the
\* expression and environment it held before the call.
C12_NestedEvalKeepsCaller ==
    [][/\ \A i \in 1..Len(stack) :
            (i < Len(stack) /\ i <= Len(stack')) =>
                (SameVal(stack'[i].X, stack[i].X) /\ stack'[i].Env = stack[i].Env)
       /\ (ev'.op \in {"host", "callback", "called"} /\ Len(stack') >= Len(stack)) =>
            /\ SameVal(stack'[Len(stack)].X, TopOf(stack).X)
            /\ stack'[Len(stack)].Env = TopOf(stack).Env
       /\ (ev'.op = "callback" /\ Len(stack') > Len(stack)) =>
            /\ SameVal(TopOf(stack').X, ev'.proc.body)
            /\ FreshChild(envs, envs', TopOf(stack').Env, ev'.proc.env)
       /\ (Done' /\ prog.name = "map_lambda") => Is(ret', L(<<Num(2), Num(4)>>))
       /\ (Done' /\ prog.name = "map_outer") =>
            Is(ret', L(<<L(<<Num(10), Num(20)>>), Num(7)>>))
       /\ (Done' /\ prog.name = "map_raise") => Is(ret', L(<<Num(1), Num(7)>>))]_vars

\* The second callback of map has returned to the activation that called map,
\* inside a lambda call.
C12_Witness ==
    /\ ev.op = "called"
    /\ prog.name = "map_outer"
    /\ SameVal(L(Top.out), L(<<Num(10), Num(20)>>))
    /\ Top.X.t = "list"
    /\ SameVal(Idx(Top.X, 0), S("map"))
    /\ SameVal(envs[Top.Env].members["x"], Num(7))

\* C14: (if C T) with no alternative, C evaluating to false: the form yields
\* Nil, neither Undefined nor an error.
C14_IfWithoutAlternativeIsNil ==
    /\ (ev.op = "branch" /\ Len(ev.form.v) = 3 /\ IsFalse(ev.cond)) => SameVal(Top.X, Nil)
    /\ (Done /\ prog.name = "if_noalt") => Is(ret, Nil)

\* C15: (begin) yields Nil, not Undefined; (begin E0 ... En) yields the value of
\* En.
C15_BeginValue ==
    /\ (Done /\ prog.name = "begin_empty") => Is(ret, Nil)
    /\ (Done /\ prog.name = "order_begin") => Is(ret, Num(123))
    /\ (Done /\ prog.name = "try_ok") => Is(ret, L(<<Num(1), Num(0)>>))

RECURSIVE LeftFold(_, _, _)
\* ((x1 op x2) op x3) ... over the integers
LeftFold(op, acc, xs) ==
    IF xs = <<>> THEN acc
    ELSE LeftFold(op,
                  CASE op = "+" -> acc + xs[1].v
                    [] op = "-" -> acc - xs[1].v
                    [] op = "*" -> acc * xs[1].v
                    [] OTHER -> acc \div xs[1].v,
                  Tail(xs))

\* C16: variadic arithmetic.  (+) is 0 and (*) is 1; (-) and (/) raise
\* InvalidArgument; (+ x) = x, (* x) = x, (- x) = -x, (/ x) = 1/x; with two or
\* more operands each operator folds from the left.
C16_VariadicArithmetic ==
    (ev.op = "host" /\ ev.proc.v \in {"+", "-", "*", "/"}) =>
        LET op == ev.proc.v
            xs == ev.args
        IN CASE xs = <<>> /\ op = "+" -> Is(ret, Num(0))
             [] xs = <<>> /\ op = "*" -> Is(ret, Num(1))
             [] xs = <<>> /\ op \in {"-", "/"} -> IsError(ret, "InvalidArgumentError")
             [] Len(xs) = 1 /\ op \in {"+", "*"} -> Is(ret, xs[1])
             [] Len(xs) = 1 /\ op = "-" -> Is(ret, Num(0 - xs[1].v))
             [] Len(xs) = 1 /\ op = "/" ->
                    ret.kind = "value" /\ (ret.val.t = "num" => ret.val.v * xs[1].v = 1)
             [] OTHER -> Is(ret, Num(LeftFold(op, xs[1].v, Tail(xs))))

\* C13: debug mode does not change what an evaluation does.  Whether and
\* wherever the switch is set (before the evaluation, by Main's -d or SetDebug;
\* during it, by kernel:debug), each program ends with the value and the
\* bindings it ends with when the switch is never set, and emitting the trace
\* raises no error.
C13_DebugKeepsSemantics ==
    /\ (Done /\ prog.name = "dbg_plain") =>
            /\ Is(ret, L(<<Num(1), L(<<Num(2), Num(3)>>)>>))
            /\ DOMAIN envs[2].members = {"a"}
            /\ SameVal(envs[2].members["a"], Num(1))
    /\ (Done /\ prog.name = "dbg_dict") =>
            Is(ret, L(<<DictValue>>)) /\ DOMAIN envs[2].members = {}
    /\ (Done /\ prog.name = "dbg_expr") =>
            Is(ret, DictValue) /\ DOMAIN envs[2].members = {}
    /\ ev.op # "trace"
    /\ dbg.leaked = 0

\* ------------------------------------------------------------ Parse claims
Lexed == parser.pc \in {"lexed", "done"}
Parsed == parser.pc = "done"
TokensOf(lexemes) == [i \in 1..Len(lexemes) |-> lexemes[i].tok]
RaisedParserError ==
    /\ IsError(parser.out, "ParserError")
    /\ parser.out.val.message.t = "str"
    /\ parser.out.val.message.v # ""

\* The place of the next double quote from i on that no backslash escapes, a
\* backslash escaping exactly the one character after it; 0 when the text ends
\* before such a quote.
RECURSIVE ClosingQuote(_, _)
ClosingQuote(str, i) ==
    IF i > Len(str) THEN 0
    ELSE IF str[i] = "\\" THEN ClosingQuote(str, i + 2)
    ELSE IF str[i] = "\"" THEN i
    ELSE ClosingQuote(str, i + 1)

\* C17: a token that starts at a double quote ends at the next double quote
\* that is not escaped, a backslash escaping exactly the one character after it
\* (an escaped backslash does not escape what follows it); the opening and the
\* closing quote are part of the token.
C17_StringTokenEndsAtUnescapedQuote ==
    Lexed =>
        \A i \in 1..Len(parser.lexemes) :
            LET lx == parser.lexemes[i]
                close == ClosingQuote(parser.code, lx.at + 1)
            IN (startOf(lx.tok) = "\"" /\ close # 0) =>
                    lx.tok = SubSeq(parser.code, lx.at, close)

\* C18: when the text Parse reads opens a string token with a double quote and
\* ends before an unescaped closing double quote, Parse raises a ParserError
\* and returns no value.
C18_UnterminatedStringRaises ==
    (/\ Parsed
     /\ parser.lexemes # <<>>
     /\ startOf(parser.lexemes[1].tok) = "\""
     /\ ClosingQuote(parser.code, parser.lexemes[1].at + 1) = 0)
        => RaisedParserError

IsOpener(token) == token \in {<<"(">>, <<"[">>, <<"{">>}
Closes(token, opener) ==
    \/ opener = <<"(">> /\ token = <<")">>
    \/ opener = <<"[">> /\ token = <<"]">>
    \/ opener = <<"{">> /\ token = <<"}">>
OnlyQuotes(token) == token # <<>> /\ \A i \in 1..Len(token) : token[i] = "'"

\* Matching openers with closers of their kind from token i on, `pending` the
\* openers not yet closed: TRUE when the tokens run out with an opener pending.
\* With firstForm the matching stops where the form that starts at the first
\* token is complete; without it every token is matched.
RECURSIVE OpenAtEnd(_, _, _, _)
OpenAtEnd(tokens, i, pending, firstForm) ==
    IF i > Len(tokens) THEN pending # <<>>
    ELSE IF IsOpener(tokens[i])
        THEN OpenAtEnd(tokens, i + 1, Append(pending, tokens[i]), firstForm)
    ELSE IF pending # <<>> /\ Closes(tokens[i], pending[Len(pending)])
        THEN IF firstForm /\ Len(pending) = 1 THEN FALSE
             ELSE OpenAtEnd(tokens, i + 1, SubSeq(pending, 1, Len(pending) - 1), firstForm)
    ELSE IF firstForm /\ pending = <<>> /\ ~OnlyQuotes(tokens[i]) THEN FALSE
    ELSE OpenAtEnd(tokens, i + 1, pending, firstForm)

RECURSIVE OnlyBlank(_, _)
OnlyBlank(str, i) ==
    IF i > Len(str) THEN TRUE
    ELSE IF isspace(str[i]) THEN OnlyBlank(str, i + 1)
    ELSE IF Substr(str, i, 2) = <<";", ";">> THEN OnlyBlank(str, SkipComment(str, i))
    ELSE FALSE

\* C20: for every source text that holds only whitespace and ;; comments (the
\* empty text, a single space, a comment followed by a newline), Parse raises a
\* parser error or returns nil; it returns no other value, such as a symbol.
C20_EmptyProgram ==
    (Parsed /\ OnlyBlank(parser.code, 1)) =>
        \/ RaisedParserError
        \/ parser.out.kind = "value" /\ parser.out.val.t = "nil"

\* C21: for every expression e that Parse produces (numbers, strings, symbols,
\* lists, tuples), Parse(to_string(e)) returns a value structurally equal to e.
C21_RoundTrip ==
    parser.pc = "reparsed" =>
        /\ parser.out.kind = "value"
        /\ SameVal(parser.out.val, parser.first.val)

\* the names of Types
TypeNames ==
    {"undefined", "nil", "number", "string", "symbol", "list", "object", "environment",
     "lambda", "macro", "proc", "sproc"}

\* C22: typeof is total: for every value (Undefined, Nil, Bool, Number, String,
\* Symbol, List, Dict, Environment, Lambda, Macro, Procedure, SpecialProcedure,
\* Error) it returns, without raising, one symbol of the fixed set.
C22_TypeOfTotal ==
    (Done /\ prog.name = "typeof") =>
        ret.kind = "value" /\ ret.val.t = "sym" /\ ret.val.v \in TypeNames

\* C23: for every name N and message M,
\* (try (error (error:custom N M)) (lambda (e) (error:name e))) evaluates to N:
\* error:name of a caught error built by error:custom is the name it was built
\* with (the symbol Oops for N = 'Oops).
C23_ErrorNameRecovered ==
    (Done /\ prog.name = "recover") =>
        Is(ret, ErrorNames[((prog.n - 1) % Len(ErrorNames)) + 1])

\* C26: a list whose head is a String, the text of a special-form name
\* included, is an application: its head is evaluated and applied, so its
\* operands are evaluated and one that names an unbound variable raises
\* KeyNotFound.
C26_StringHeadIsApplied ==
    (Done /\ prog.name = "strhead") => IsError(ret, "KeyNotFoundError")

\* The value most recently stored under the text k by the update calls, or
\* Undefined when none stored one.
RECURSIVE LastStored(_, _, _)
LastStored(updates, k, i) ==
    IF i = 0 THEN Undefined
    ELSE IF to_s(updates[i][1]) = k THEN updates[i][2]
    ELSE LastStored(updates, k, i - 1)

WasStored(updates, k) == \E i \in 1..Len(updates) : to_s(updates[i][1]) = k

\* C28: get(Table, K) is the value most recently stored under to_s(K) when an
\* update stored one, and otherwise the value stored under the no-match key _
\* (whatever the text of K).
C28_JumptableGet ==
    (Done /\ prog.name = "jump") =>
        LET updates == JumpUpdatesOf(prog.n)
            k == to_s(JumpKeyOf(prog.n))
        IN Is(ret, IF WasStored(updates, k) THEN LastStored(updates, k, Len(updates))
                   ELSE LastStored(updates, "_", Len(updates)))

\* C25: every call Require(path), the second and later ones for a path
\* included, returns an object (holding the module's exports under their
\* names without the module prefix).
C25_RequireReturnsExports ==
    mods.op = "require" => mods.result.kind = "value" /\ mods.result.val.t = "dict"

\* C27: over any sequence of imports, imports issued while a module body is
\* being evaluated included, the body of the module at each resolved path is
\* evaluated at most once and every call for the path is handed the same
\* exports dictionary.
C27_EvaluatedOncePerPath ==
    \A p \in Paths : mods.evals[p] <= 1 /\ Cardinality(mods.handed[p]) <= 1

\* While the REPL waits for input, the prompt shown is the continuation prompt
\* exactly when ContinuationFlag is true.
PromptFollowsFlag ==
    repl.status = "waiting" => (repl.shown = PromptContinuation <=> repl.ContinuationFlag)

\* What one handler of the REPL does to the continuation.
ContinuationStep ==
    LET line == repl'.line
        cancel == <<"\\", "c">>
    IN /\ (repl'.op = "line" /\ ~command_p(First(line))) =>
            /\ repl'.parsed = (IF repl.ContinuationFlag THEN repl.ContinuedLine \o line
                               ELSE line)
            /\ ~repl'.flagAtParse
            /\ IF Parse(repl'.parsed).kind = "throw"
               THEN /\ repl'.ContinuationFlag
                    /\ repl'.ContinuedLine = repl'.parsed
                    /\ repl'.shown = PromptContinuation
                    /\ ~repl'.ran
               ELSE /\ ~repl'.ContinuationFlag
                    /\ repl'.shown = PromptDefault
                    /\ repl'.ran
       /\ (\/ repl'.op = "line" /\ First(line) = cancel
           \/ repl'.op = "sigint" /\ repl.ContinuationFlag) =>
            /\ ~repl'.ContinuationFlag
            /\ repl'.shown = PromptDefault
            /\ repl'.status = "waiting"
       /\ (repl'.op = "line" /\ command_p(First(line)) /\ First(line) # cancel) =>
            /\ repl'.ContinuationFlag = repl.ContinuationFlag
            /\ repl'.ContinuedLine = repl.ContinuedLine

\* C29: a line that fails to parse puts the REPL in continuation mode (flag
\* set, the text saved, continuation prompt); the next line that is no command
\* is parsed as the saved text followed by that line, with the flag cleared
\* before the parse; \c, or CTRL+C while continuing, clears the flag and
\* restores the prompt, so the next line is parsed on its own; and whenever the
\* REPL waits for input the prompt is the continuation prompt exactly when the
\* flag is true.
C29_Continuation == []PromptFollowsFlag /\ [][ContinuationStep]_vars

\* A continuation was completed: "(a" had failed to parse and was saved, and
\* the line ")" was parsed as "(a)" and ran, with the default prompt back.
C29_Witness ==
    /\ repl.op = "line" /\ repl.line = <<")">>
    /\ repl.parsed = <<"(", "a", ")">>
    /\ repl.ContinuedLine = <<"(", "a">>
    /\ repl.ran /\ ~repl.ContinuationFlag /\ repl.shown = PromptDefault

\* Following parent links from e reaches a parentless root within fuel steps.
RECURSIVE ReachesRoot(_, _, _)
ReachesRoot(es, e, fuel) ==
    \/ es[e].parent = 0
    \/ fuel > 0 /\ es[e].parent \in 1..Len(es) /\ ReachesRoot(es, es[e].parent, fuel - 1)

\* The step is dict:update applied to an Environment.
EnvFieldWrite ==
    /\ ev'.op = "host"
    /\ ev'.proc.v = "dict:update"
    /\ At(ev'.args, 1).t = "env"

\* Every environment keeps its parent, and a new one has a parent made before it.
ParentsKept ==
    /\ Len(envs') >= Len(envs)
    /\ \A e \in 1..Len(envs) : envs'[e].parent = envs[e].parent
    /\ \A e \in (Len(envs) + 1)..Len(envs') : envs'[e].parent \in 0..(e - 1)

ListsKept ==
    \A i \in 1..Len(lists.arrays) :
        (lists'.op = "shift" => i <= lists.base) => lists'.arrays[i] = lists.arrays[i]

====
